---- MODULE Spec2Model ----
(***************************************************************************)
(* Labmate backend: the code execution pipeline.                           *)
(*   - ValidatorService  (backend/app/services/validator_service.py)       *)
(*   - ExecutorService   (backend/app/services/executor_service.py)        *)
(*   - TaskService       (backend/app/services/task_service.py)            *)
(*   - POST /run         (backend/app/routers/run.py)                      *)
(* Source texts are TLA+ strings; TLC evaluates Len, \o, Head and SubSeq   *)
(* on strings, so the regular-expression sweep is computed on the text.    *)
(***************************************************************************)
EXTENDS Integers, Sequences, FiniteSets, TLC

(***************************************************************************)
(* Text helpers.                                                           *)
(***************************************************************************)
CharAt(t, i) == SubSeq(t, i, i)

UpperLetters == "ABCDEFGHIJKLMNOPQRSTUVWXYZ"

LowerLetters == "abcdefghijklmnopqrstuvwxyz"

\* str.lower() of one character
LowerChar(c) ==
    IF \E k \in 1..Len(UpperLetters) : CharAt(UpperLetters, k) = c
    THEN CharAt(LowerLetters, CHOOSE k \in 1..Len(UpperLetters) : CharAt(UpperLetters, k) = c)
    ELSE c

RECURSIVE LowerStr(_)
LowerStr(t) == IF t = "" THEN "" ELSE LowerChar(Head(t)) \o LowerStr(Tail(t))

IsSpace(c) == c \in {" ", "\t", "\n", "\r"}

\* str.strip() == ""
IsBlank(t) == \A i \in 1..Len(t) : IsSpace(CharAt(t, i))

\* x in s for strings
Contains(t, lit) ==
    \E i \in 1..(Len(t) - Len(lit) + 1) : SubSeq(t, i, i + Len(lit) - 1) = lit

\* s.split('.')[0]
FirstSegment(s) ==
    IF \E i \in 1..Len(s) : CharAt(s, i) = "."
    THEN LET d == CHOOSE i \in 1..Len(s) :
                    /\ CharAt(s, i) = "."
                    /\ \A j \in 1..(i - 1) : CharAt(s, j) # "."
         IN  SubSeq(s, 1, d - 1)
    ELSE s

(***************************************************************************)
(* Regular expressions, as far as the validator's patterns need them.  A   *)
(* pattern is a sequence of atoms:                                         *)
(*   [k |-> "lit",  s |-> text]   the literal text                         *)
(*   [k |-> "star", c |-> class]  class*                                   *)
(*   [k |-> "one",  c |-> class]  one character of the class               *)
(* with the classes "ws" (\s), "any" (. under DOTALL), "notgt" ([^>]),     *)
(* "quote" (["\']).  re.IGNORECASE: patterns are written in lower case and *)
(* matched against the lower-cased text.                                   *)
(***************************************************************************)
Lit(s) == [k |-> "lit", s |-> s]

Star(c) == [k |-> "star", c |-> c]

One(c) == [k |-> "one", c |-> c]

InClass(cls, c) ==
    CASE cls = "ws"    -> IsSpace(c)
      [] cls = "any"   -> TRUE
      [] cls = "notgt" -> c # ">"
      [] cls = "quote" -> c \in {"\"", "'"}

RECURSIVE MatchFrom(_, _, _, _)
MatchFrom(pat, k, t, i) ==
    IF k > Len(pat) THEN TRUE
    ELSE LET a == pat[k] IN
         CASE a.k = "lit" ->
                /\ i + Len(a.s) - 1 <= Len(t)
                /\ SubSeq(t, i, i + Len(a.s) - 1) = a.s
                /\ MatchFrom(pat, k + 1, t, i + Len(a.s))
           [] a.k = "one" ->
                /\ i <= Len(t)
                /\ InClass(a.c, CharAt(t, i))
                /\ MatchFrom(pat, k + 1, t, i + 1)
           [] a.k = "star" ->
                \E j \in i..(Len(t) + 1) :
                    /\ \A m \in i..(j - 1) : InClass(a.c, CharAt(t, m))
                    /\ MatchFrom(pat, k + 1, t, j)

\* re.search(pattern, code, re.IGNORECASE [| re.DOTALL])
ReSearch(pat, code) ==
    LET t == LowerStr(code)
    IN  \E i \in 1..(Len(t) + 1) : MatchFrom(pat, 1, t, i)

(***************************************************************************)
(* Python syntax trees (module ast) for the fragment the validator looks   *)
(* at, and the text of a tree.                                             *)
(***************************************************************************)
Name(id) == [type |-> "Name", id |-> id]

Attribute(value, attr) == [type |-> "Attribute", value |-> value, attr |-> attr]

Call(func, args) == [type |-> "Call", func |-> func, args |-> args]

Constant(s) == [type |-> "Constant", value |-> s]

Expr(value) == [type |-> "Expr", value |-> value]

Alias(name, asname) == [type |-> "alias", name |-> name, asname |-> asname]

Import(names) == [type |-> "Import", names |-> names]

\* module = "" stands for None (from . import x)
ImportFrom(module, names, level) ==
    [type |-> "ImportFrom", module |-> module, names |-> names, level |-> level]

Module(body) == [type |-> "Module", body |-> body]

RECURSIVE JoinWith(_, _)
JoinWith(parts, sep) ==
    IF parts = <<>> THEN ""
    ELSE IF Len(parts) = 1 THEN parts[1]
    ELSE parts[1] \o sep \o JoinWith(Tail(parts), sep)

RECURSIVE Unparse(_)
Unparse(n) ==
    CASE n.type = "Name"      -> n.id
      [] n.type = "Constant"  -> "'" \o n.value \o "'"
      [] n.type = "Attribute" -> Unparse(n.value) \o "." \o n.attr
      [] n.type = "Call"      ->
            Unparse(n.func) \o "("
              \o JoinWith([i \in 1..Len(n.args) |-> Unparse(n.args[i])], ", ") \o ")"
      [] n.type = "Expr"      -> Unparse(n.value)
      [] n.type = "alias"     ->
            IF n.asname = "" THEN n.name ELSE n.name \o " as " \o n.asname
      [] n.type = "Import"    ->
            "import " \o JoinWith([i \in 1..Len(n.names) |-> Unparse(n.names[i])], ", ")
      [] n.type = "ImportFrom" ->
            "from " \o (IF n.level > 0 THEN "." ELSE "") \o n.module \o " import "
              \o JoinWith([i \in 1..Len(n.names) |-> Unparse(n.names[i])], ", ")

\* ast.iter_child_nodes
ChildNodes(n) ==
    CASE n.type = "Module"     -> n.body
      [] n.type = "Expr"       -> <<n.value>>
      [] n.type = "Call"       -> <<n.func>> \o n.args
      [] n.type = "Attribute"  -> <<n.value>>
      [] n.type = "Import"     -> n.names
      [] n.type = "ImportFrom" -> n.names
      [] OTHER                 -> <<>>

\* ast.walk: breadth first, the node itself first
RECURSIVE WalkQueue(_)
WalkQueue(todo) ==
    IF todo = <<>> THEN <<>>
    ELSE <<Head(todo)>> \o WalkQueue(Tail(todo) \o ChildNodes(Head(todo)))

Walk(tree) == WalkQueue(<<tree>>)

(***************************************************************************)
(* A source text is a sequence of lines followed by `pad` blank lines.     *)
(* A line is a statement (its text is the statement's unparse), a comment  *)
(* or text that Python cannot parse.  Trailing blank lines change neither  *)
(* the tree nor any pattern match (no pattern can end in white space), so  *)
(* they are kept as a count: this is how a text reaches MAX_CODE_LENGTH.   *)
(***************************************************************************)
Stmt(node) == [kind |-> "stmt", node |-> node, text |-> Unparse(node)]

Comment(text) == [kind |-> "comment", node |-> Constant(""), text |-> text]

Garbage(text) == [kind |-> "garbage", node |-> Constant(""), text |-> text]

SourceText(src) == JoinWith([i \in 1..Len(src.lines) |-> src.lines[i].text], "\n")

\* len(code)
CodeLen(src) == Len(SourceText(src)) + src.pad

\* ast.parse(code): SyntaxError, or the Module
ParseOk(src) == \A i \in 1..Len(src.lines) : src.lines[i].kind # "garbage"

RECURSIVE StmtNodes(_)
StmtNodes(lines) ==
    IF lines = <<>> THEN <<>>
    ELSE (IF Head(lines).kind = "stmt" THEN <<Head(lines).node>> ELSE <<>>)
           \o StmtNodes(Tail(lines))

Parse(src) == Module(StmtNodes(src.lines))

(***************************************************************************)
(* ValidatorService.                                                       *)
(***************************************************************************)
MAX_CODE_LENGTH == 5000

blocked_imports ==
    {"os", "subprocess", "sys", "socket", "pathlib", "shutil",
     "eval", "exec", "compile", "__import__", "glob", "tempfile",
     "urllib", "requests", "http", "ftplib", "smtplib",
     "pickle", "marshal", "ctypes", "multiprocessing"}

blocked_functions ==
    {"open", "file", "input", "raw_input", "exit", "quit",
     "help", "dir", "vars", "locals", "globals"}

blocked_attributes ==
    {"__import__", "__globals__", "__locals__", "__code__",
     "__func__", "__self__", "__class__", "__bases__",
     "__subclasses__", "__mro__", "__dict__"}

Allowed == [allowed |-> TRUE, reason |-> ""]

Rejected(reason) == [allowed |-> FALSE, reason |-> reason]

\* the Import branch without its second test, alias.name.split('.')[0]
FirstBlockedImportAliasExact(names) ==
    LET bad == {i \in 1..Len(names) : names[i].name \in blocked_imports}
    IN  IF bad = {} THEN 0 ELSE CHOOSE i \in bad : \A j \in bad : i <= j

\* the first alias of an import that the Import branch rejects, 0 if none
FirstBlockedImportAlias(names) ==
    LET bad == {i \in 1..Len(names) :
                   \/ names[i].name \in blocked_imports
                   \/ FirstSegment(names[i].name) \in blocked_imports}
    IN  IF bad = {} THEN 0 ELSE CHOOSE i \in bad : \A j \in bad : i <= j

\* the first alias of a from-import whose imported name is blocked, 0 if none
FirstBlockedFromAlias(names) ==
    LET bad == {i \in 1..Len(names) : names[i].name \in blocked_imports}
    IN  IF bad = {} THEN 0 ELSE CHOOSE i \in bad : \A j \in bad : i <= j

\* the body of the loop of _validate_ast for one node: the verdict it
\* returns with, or Allowed when the loop goes on to the next node
ValidateNode(node) ==
    IF node.type \in {"Import", "ImportFrom"} THEN
        IF node.type = "Import" THEN
            IF FirstBlockedImportAlias(node.names) # 0
            THEN Rejected("Dangerous import blocked: "
                            \o node.names[FirstBlockedImportAlias(node.names)].name)
            ELSE Allowed
        ELSE
            IF node.module # "" /\ FirstSegment(node.module) \in blocked_imports
            THEN Rejected("Dangerous import blocked: " \o node.module)
            ELSE IF FirstBlockedFromAlias(node.names) # 0
            THEN Rejected("Dangerous import blocked: "
                            \o node.names[FirstBlockedFromAlias(node.names)].name)
            ELSE Allowed
    ELSE IF node.type = "Call" THEN
        IF node.func.type = "Name" THEN
            IF node.func.id \in blocked_functions
            THEN Rejected("Dangerous function call blocked: " \o node.func.id)
            ELSE Allowed
        ELSE IF node.func.type = "Attribute" THEN
            IF node.func.attr \in blocked_attributes
            THEN Rejected("Dangerous attribute access blocked: " \o node.func.attr)
            ELSE Allowed
        ELSE Allowed
    ELSE IF node.type = "Attribute" THEN
        IF node.attr \in blocked_attributes
        THEN Rejected("Dangerous attribute access blocked: " \o node.attr)
        ELSE Allowed
    ELSE IF node.type = "Call" THEN
        \* the second `elif isinstance(node, ast.Call)` of the source: a Call
        \* node always takes the first Call branch above
        IF node.func.type = "Name" /\ node.func.id \in {"eval", "exec", "compile"}
        THEN Rejected("Dangerous function blocked: " \o node.func.id)
        ELSE Allowed
    ELSE Allowed

RECURSIVE FirstRejection(_)
FirstRejection(nodes) ==
    IF nodes = <<>> THEN Allowed
    ELSE IF ~ValidateNode(Head(nodes)).allowed THEN ValidateNode(Head(nodes))
    ELSE FirstRejection(Tail(nodes))

ValidateAst(tree) == FirstRejection(Walk(tree))

\* open\s*\(   file\s*\(   \.write\s*\(   \.read\s*\(   \.append\s*\(   \.writelines\s*\(
file_operations ==
    << <<Lit("open"), Star("ws"), Lit("(")>>,
       <<Lit("file"), Star("ws"), Lit("(")>>,
       <<Lit(".write"), Star("ws"), Lit("(")>>,
       <<Lit(".read"), Star("ws"), Lit("(")>>,
       <<Lit(".append"), Star("ws"), Lit("(")>>,
       <<Lit(".writelines"), Star("ws"), Lit("(")>> >>

\* os\.system   subprocess\.   \.popen   \.call   \.run\s*\(   \.check_output
system_commands ==
    << <<Lit("os.system")>>,
       <<Lit("subprocess.")>>,
       <<Lit(".popen")>>,
       <<Lit(".call")>>,
       <<Lit(".run"), Star("ws"), Lit("(")>>,
       <<Lit(".check_output")>> >>

\* urllib   requests\.   socket\.   http\.   ftplib   smtplib
network_operations ==
    << <<Lit("urllib")>>,
       <<Lit("requests.")>>,
       <<Lit("socket.")>>,
       <<Lit("http.")>>,
       <<Lit("ftplib")>>,
       <<Lit("smtplib")>> >>

AnyMatch(patterns, code) ==
    \E p \in 1..Len(patterns) : ReSearch(patterns[p], code)

ValidateStrings(code) ==
    IF AnyMatch(file_operations, code)
    THEN Rejected("File operations are not allowed")
    ELSE IF AnyMatch(system_commands, code)
    THEN Rejected("System command execution is not allowed")
    ELSE IF AnyMatch(network_operations, code)
    THEN Rejected("Network operations are not allowed")
    ELSE Allowed

ValidatePythonCode(src) ==
    IF ~ParseOk(src) THEN Rejected("Syntax error: invalid syntax")
    ELSE IF ~ValidateAst(Parse(src)).allowed THEN ValidateAst(Parse(src))
    ELSE IF ~ValidateStrings(SourceText(src)).allowed THEN ValidateStrings(SourceText(src))
    ELSE Allowed

extremely_dangerous_patterns ==
    << \* <script[^>]*>.*eval\s*\(
       <<Lit("<script"), Star("notgt"), Lit(">"), Star("any"), Lit("eval"),
         Star("ws"), Lit("(")>>,
       \* <script[^>]*>.*document\.cookie.*=
       <<Lit("<script"), Star("notgt"), Lit(">"), Star("any"), Lit("document.cookie"),
         Star("any"), Lit("=")>>,
       \* <script[^>]*>.*window\.location\.href\s*=
       <<Lit("<script"), Star("notgt"), Lit(">"), Star("any"),
         Lit("window.location.href"), Star("ws"), Lit("=")>>,
       \* <script[^>]*>.*XMLHttpRequest.*open.*http
       <<Lit("<script"), Star("notgt"), Lit(">"), Star("any"), Lit("xmlhttprequest"),
         Star("any"), Lit("open"), Star("any"), Lit("http")>>,
       \* <iframe[^>]*src\s*=\s*["\']http
       <<Lit("<iframe"), Star("notgt"), Lit("src"), Star("ws"), Lit("="), Star("ws"),
         One("quote"), Lit("http")>>,
       \* <object[^>]*data\s*=\s*["\']http
       <<Lit("<object"), Star("notgt"), Lit("data"), Star("ws"), Lit("="), Star("ws"),
         One("quote"), Lit("http")>>,
       \* <embed[^>]*src\s*=\s*["\']http
       <<Lit("<embed"), Star("notgt"), Lit("src"), Star("ws"), Lit("="), Star("ws"),
         One("quote"), Lit("http")>>,
       \* javascript:\s*void
       <<Lit("javascript:"), Star("ws"), Lit("void")>>,
       \* data:text/html.*base64
       <<Lit("data:text/html"), Star("any"), Lit("base64")>> >>

\* _validate_web_code without its first test
ValidateWebCodeNoBlank(src) ==
    IF CodeLen(src) > MAX_CODE_LENGTH
    THEN Rejected("Code too long. Maximum 5000 characters allowed.")
    ELSE IF AnyMatch(extremely_dangerous_patterns, SourceText(src))
    THEN Rejected("Extremely dangerous web code detected")
    ELSE Allowed

\* if not code.strip(): ...; if len(code) > settings.MAX_CODE_LENGTH: ...;
\* for pattern in extremely_dangerous_patterns: if re.search(...): ...;
\* return True, ""
ValidateWebCode(src) ==
    IF IsBlank(SourceText(src)) THEN Rejected("Empty code")
    ELSE IF CodeLen(src) > MAX_CODE_LENGTH
    THEN Rejected("Code too long. Maximum 5000 characters allowed.")
    ELSE IF AnyMatch(extremely_dangerous_patterns, SourceText(src))
    THEN Rejected("Extremely dangerous web code detected")
    ELSE Allowed

\* a length test that rejects at the limit already
ValidateCodeAtLimit(src, language) ==
    IF CodeLen(src) >= MAX_CODE_LENGTH
    THEN Rejected("Code too long. Maximum 5000 characters allowed.")
    ELSE IF language = "webdev" THEN ValidateWebCode(src)
    ELSE ValidatePythonCode(src)

\* if len(code) > settings.MAX_CODE_LENGTH: return False, "Code too long. ..."
\* if language == "webdev": return self._validate_web_code(code)
\* return self._validate_python_code(code)
ValidateCode(src, language) ==
    IF CodeLen(src) > MAX_CODE_LENGTH
    THEN Rejected("Code too long. Maximum 5000 characters allowed.")
    ELSE IF language = "webdev" THEN ValidateWebCode(src)
    ELSE ValidatePythonCode(src)

(***************************************************************************)
(* Source texts the specifications draw from.                              *)
(***************************************************************************)
MaxLines == 2

PyLines ==
    { Stmt(Import(<<Alias("os", "")>>)),
      Stmt(Import(<<Alias("os.path", "")>>)),
      Stmt(Import(<<Alias("os", "o")>>)),
      Stmt(Import(<<Alias("math", "")>>)),
      Stmt(Import(<<Alias("math", ""), Alias("pickle", "")>>)),
      Stmt(ImportFrom("os", <<Alias("path", "")>>, 0)),
      Stmt(ImportFrom("os.path", <<Alias("join", "")>>, 0)),
      Stmt(ImportFrom("math", <<Alias("sqrt", "")>>, 0)),
      Stmt(ImportFrom("", <<Alias("os", "")>>, 1)),
      Stmt(Expr(Call(Name("open"), <<Name("x")>>))),
      Stmt(Expr(Call(Name("print"), <<Name("x")>>))),
      Stmt(Expr(Call(Name("eval"), <<Name("x")>>))),
      Stmt(Expr(Call(Name("input"), <<>>))),
      Stmt(Expr(Call(Name("Open"), <<Name("x")>>))),
      Stmt(Expr(Call(Name("print"), <<Call(Name("dir"), <<>>)>>))),
      Stmt(Expr(Call(Attribute(Name("items"), "append"), <<Name("x")>>))),
      Stmt(Expr(Call(Attribute(Name("items"), "sort"), <<>>))),
      Stmt(Expr(Call(Attribute(Name("x"), "__subclasses__"), <<>>))),
      Stmt(Expr(Attribute(Name("x"), "__class__"))),
      Stmt(Expr(Call(Attribute(Attribute(Name("x"), "__class__"), "mro"), <<>>))),
      Stmt(Expr(Attribute(Name("x"), "real"))),
      Stmt(Expr(Constant("urllib"))),
      Comment("# os.system"),
      Garbage("def (") }

\* markup: not Python
WebLines ==
    { Garbage("<p>hi</p>"),
      Garbage("<script>alert(1)</script>"),
      Garbage("<script>eval (x)</script>"),
      Garbage("<SCRIPT>document.cookie = 'a'</SCRIPT>"),
      Garbage("<iframe src='http://e.com'></iframe>"),
      Garbage("<a href='javascript: void(0)'>x</a>"),
      Comment(" "),
      Stmt(Expr(Call(Name("eval"), <<Name("x")>>))) }

SeqsUpTo(S, n) == UNION {[1..k -> S] : k \in 0..n}

\* the lengths that matter: as written, exactly at the limit, one above it
PadChoices(lines) ==
    LET n == Len(JoinWith([i \in 1..Len(lines) |-> lines[i].text], "\n"))
    IN  {0, MAX_CODE_LENGTH - n, MAX_CODE_LENGTH - n + 1}

SourcesOver(L) ==
    {[lines |-> ls, pad |-> p] : <<ls, p>> \in
        UNION {{<<ls, p>> : p \in PadChoices(ls)} : ls \in SeqsUpTo(L, MaxLines)}}

PySources == SourcesOver(PyLines)

WebSources == SourcesOver(WebLines)

\* sources given with the tags java and c
CompiledLines ==
    { Garbage("int main() { return 0; }"),
      Garbage("public class Main { }"),
      Stmt(Import(<<Alias("os", "")>>)) }

CompiledSources == SourcesOver(CompiledLines)

(***************************************************************************)
(* State.                                                                  *)
(***************************************************************************)
VARIABLES
    \* validator_service.validate_code
    vpc,        \* "start", "done"
    vcode,      \* code
    vlanguage,  \* language
    vverdict,   \* the returned (is_valid, error_message)
    \* executor_service.execute_code / execute_react_project: one call
    entry,            \* the method called
    language,         \* execute_code: language
    is_simple_code,   \* _execute_react_code: is_simple_code
    routes,           \* execute_react_project: routes
    epc,              \* where the call is
    result,           \* the returned (success, output, logs, exit_code)
    compile_process,  \* gcc / javac child
    run_process,      \* python3 / executable / java child
    piped,            \* live descendants of run_process that hold its pipes
    detached,         \* live descendants of run_process that do not
    timed_out,        \* what wait_for's timeout found: "no" or the child's state
    files,            \* temporary files of the call that exist on disk
    cleanups,         \* how often the call's finally block ran
    exc,              \* exceptions so far: reached the method's outer handler,
                      \* handled where raised, escaped to the caller
    container,        \* the Docker container of the call
    helper,           \* the docker CLI child the call awaits
    attempt,          \* _start_react_container: attempt
    probe,            \* _start_react_container: the last answer to the readiness probe
    container_logs,   \* _start_react_container: logs, "" while not assigned
    allocation,       \* find_free_port: the binds tried, the port returned
    materialized,     \* _create_react_project_structure wrote the project
    port,             \* the host port of the call: "none", "free" as probed,
                      \* "taken" by someone else since
    screenshots,      \* _capture_react_routes: screenshots
    route_index,      \* _capture_react_routes: the routes the loop is through
    waits,            \* per route, what the wait for React to mount ended with
    browser,          \* the browser of the call: "none", "open", "closed"
    pending,          \* _execute_node_code: output_html, logs
    \* one request: task_service.submit_tasks with one task, or run.run_tasks
    \* with one task id
    path,             \* "task": submit_tasks; "run": POST /run
    theme,            \* the request's theme
    upload_language,  \* task path: upload.language, "" for None
    task_type,        \* task path: task.task_type
    user_code,        \* task.user_code / code_snippet
    project_files,    \* task path: task.project_files is not empty
    task_routes,      \* task path: task.routes, <<>> for None or []
    cpc,              \* where the request is
    job_theme,        \* task path: job.theme
    job_status,       \* job.status
    task_status,      \* task path: task.status
    message,          \* task.caption / job.error_message
    validated,        \* validate_code: whether called, and what it returned
    invoked,          \* the executor method called and its language
    appended,         \* /run: the job is in `jobs`
    propagated,       \* an exception left the request's handler
    task_stdout,      \* task path: task.stdout, <<>> for None
    task_exit_code,   \* task path: task.exit_code, <<>> for None
    returned,         \* what the executor method returned to the request
    passed_routes,    \* the routes argument execute_react_project was called with
    \* two calls of execute_code in flight at once
    rpc,              \* where each call is
    rlanguage,        \* each call's language
    rcode,            \* java: the code of each call
    tempdir,          \* tempfile.gettempdir(): for each path, the call whose
                      \* code the file holds or was compiled from
    executed,         \* the call whose code each call ran
    \* _create_react_project_structure: one call
    ppc,              \* "start", "files", "main", "done"
    supplied,         \* project_files, in the order of the dict: <<path, content>>
    wrote,            \* the paths opened for writing
    main_imports,     \* what main.jsx imports: app_filename and css_filename
    \* _execute_node_code: two calls in flight
    npc,              \* "start", "sleep", "stop", "finally", "done"
    ncode,            \* the server.js of each call
    published,        \* for each host port, the call whose container holds it
    answered          \* the call whose server answered each call's GET

vvars == <<vpc, vcode, vlanguage, vverdict>>

call == <<entry, language, is_simple_code, routes>>

procs == <<compile_process, run_process, piped, detached, timed_out>>

docker == <<helper, attempt, container_logs, port, probe, allocation>>

capture == <<screenshots, route_index, browser, waits>>

web == <<docker, capture, pending, materialized>>

evars == <<call, epc, result, procs, files, exc, container, web, cleanups>>

request == <<path, theme, upload_language, task_type, project_files, task_routes>>

stored == <<task_stdout, task_exit_code, returned, passed_routes>>

cvars == <<request, user_code, cpc, job_theme, job_status, task_status, message,
           validated, invoked, appended, propagated, stored>>

concurrent == <<rpc, rlanguage, rcode, tempdir, executed>>

pvars == <<ppc, supplied, wrote, main_imports>>

nvars == <<npc, ncode, published, answered>>

vars == <<vvars, evars, cvars, concurrent, pvars, nvars>>

(***************************************************************************)
(* validator_service.validate_code(code, language)                         *)
(***************************************************************************)
ValidatorStart ==
    /\ vpc = "start"
    /\ \/ vlanguage = "python" /\ vcode \in PySources
       \/ vlanguage \in {"java", "c"} /\ vcode \in CompiledSources
       \/ vlanguage = "webdev" /\ vcode \in WebSources
    /\ vverdict = Rejected("")

ValidatorIdle ==
    /\ vpc = "idle"
    /\ vlanguage = "python"
    /\ vcode = [lines |-> <<>>, pad |-> 0]
    /\ vverdict = Rejected("")

Validate ==
    /\ vpc = "start"
    /\ vverdict' = ValidateCode(vcode, vlanguage)
    /\ vpc' = "done"
    /\ UNCHANGED <<vcode, vlanguage>>
    /\ UNCHANGED <<evars, cvars, concurrent, pvars, nvars>>

(***************************************************************************)
(* ExecutorService: one call of execute_code or execute_react_project.     *)
(*                                                                         *)
(* Child processes are asyncio subprocesses.  communicate() returns when   *)
(* both pipes are at end of file and the child was reaped; the pipes stay  *)
(* open while the child or a descendant that inherited them lives.         *)
(* kill() raises ProcessLookupError once the transport is finished (child  *)
(* reaped and pipes closed), does nothing on a reaped child, and sends     *)
(* SIGKILL otherwise.  wait() returns at once on a reaped child; a wait()  *)
(* begun before that is woken when the transport finishes, and on some     *)
(* versions of the runtime as soon as the child is reaped.                 *)
(***************************************************************************)
MaxDescendants == 1

MaxExitCode == 2

MaxRoutes == 2

MaxAttempts == 24

TIMEOUT_EXIT_CODE == 124

SIGKILLED == -9

Languages == {"python", "c", "java", "html", "react", "node"}

ExitCodes == 0..MaxExitCode

\* what a child may have written to a pipe: nothing, text, bytes that are
\* not UTF-8
InvalidUtf8 == "<bytes that are not UTF-8>"

ChildOutputs == {"", "hi", InvalidUtf8}

\* gcc and javac write ASCII messages and quote the UTF-8 source
CompilerOutputs == {"", "error: expected ';'"}

\* data.decode('utf-8') raises UnicodeDecodeError
DecodeFails(data) == data = InvalidUtf8

\* data.decode('utf-8') if data else ""
Decode(data) == data

NoProcess == [state |-> "none", returncode |-> 0, stdout |-> "", stderr |-> ""]

Result(success, output, logs, exit_code) ==
    [success |-> success, output |-> output, logs |-> logs, exit_code |-> exit_code]

NoResult == Result(FALSE, "", "", 0)

NoExc == [outer |-> FALSE, local |-> FALSE, escaped |-> FALSE]

NoPending == [output_html |-> "", logs |-> ""]

\* find_free_port was not called
NoAllocation == [binds |-> 0, number |-> 0]

\* no answer: the request was not made or raised
NoResponse == [status |-> 0, text |-> ""]

ExecStart ==
    /\ entry \in {"execute_code", "execute_react_project", "_capture_webpage_screenshot"}
    /\ CASE entry = "execute_code" ->
              /\ language \in Languages
              /\ IF language = "react" THEN is_simple_code \in BOOLEAN
                 ELSE is_simple_code = FALSE
              /\ routes = <<"/">>
         [] entry = "execute_react_project" ->
              /\ language = "react"
              /\ is_simple_code = FALSE
              /\ routes \in SeqsUpTo({"/", "/about"}, MaxRoutes)
         [] OTHER ->
              /\ language = "html"
              /\ is_simple_code = FALSE
              /\ routes = <<"/">>
    /\ epc = "start"
    /\ result = NoResult
    /\ compile_process = NoProcess
    /\ run_process = NoProcess
    /\ piped = 0
    /\ detached = 0
    /\ timed_out = "no"
    /\ files = {}
    /\ exc = NoExc
    /\ cleanups = 0
    /\ container = "none"
    /\ helper = NoProcess
    /\ attempt = 0
    /\ probe = NoResponse
    /\ container_logs = ""
    /\ port = "none"
    /\ allocation = NoAllocation
    /\ materialized = FALSE
    /\ screenshots = <<>>
    /\ route_index = 0
    /\ waits = <<>>
    /\ browser = "none"
    /\ pending = NoPending

ExecIdle ==
    /\ entry = "none"
    /\ language = "python"
    /\ is_simple_code = FALSE
    /\ routes = <<"/">>
    /\ epc = "idle"
    /\ result = NoResult
    /\ compile_process = NoProcess
    /\ run_process = NoProcess
    /\ piped = 0
    /\ detached = 0
    /\ timed_out = "no"
    /\ files = {}
    /\ exc = NoExc
    /\ cleanups = 0
    /\ container = "none"
    /\ helper = NoProcess
    /\ attempt = 0
    /\ probe = NoResponse
    /\ container_logs = ""
    /\ port = "none"
    /\ allocation = NoAllocation
    /\ materialized = FALSE
    /\ screenshots = <<>>
    /\ route_index = 0
    /\ waits = <<>>
    /\ browser = "none"
    /\ pending = NoPending

\* the method that runs the call
Method ==
    IF entry # "execute_code" THEN entry
    ELSE CASE language = "c"      -> "_execute_c_code"
           [] language = "java"   -> "_execute_java_code"
           [] language = "html"   -> "_execute_html_code"
           [] language = "node"   -> "_execute_node_code"
           [] language = "react"  -> IF is_simple_code THEN "_execute_node_code"
                                     ELSE "execute_react_project"
           [] OTHER               -> "_execute_python_code"

\* the handlers with no try around the removal of the temporary files
HandlerUnguardedCleanup(stage) ==
    CASE stage \in {"temp_file", "spawn", "decode", "kill", "render",
                    "port_allocation", "project_materialization",
                    "container_launch", "readiness_polling", "browser"} -> "outer"
      [] stage \in {"fetch", "docker_stop", "probe", "capture"} -> "local"
      [] OTHER -> "none"

\* the except clause an exception raised at `stage` reaches: "outer", the
\* method's `except Exception` that returns a result; "local", a handler
\* at the place, after which the method goes on; "none", no handler
Handler(stage) ==
    CASE stage \in {"temp_file", "spawn", "decode", "kill", "render",
                    "port_allocation", "project_materialization",
                    "container_launch", "readiness_polling", "browser"} -> "outer"
      [] stage \in {"fetch", "docker_stop", "probe", "capture", "cleanup"} -> "local"
      [] OTHER -> "none"

\* the files the method's finally block removes
Unlinked ==
    CASE Method = "_execute_python_code" -> {"source"}
      [] Method = "_execute_c_code"      -> {"source", "executable"}
      [] Method = "_execute_java_code"   -> {"source", "class"}
      [] OTHER                           -> {"temp_dir"}

\* the state `docker stop` leaves the container in: `docker run --rm`
\* removes a stopped container, `docker run -d` keeps it
Stopped == IF Method = "_execute_node_code" THEN "removed" ELSE "exited"

\* a finally block that is skipped when the method's except clause ran
FinallyOnSuccessOnly(ex) ==
    /\ cleanups' = IF ex.outer THEN cleanups ELSE cleanups + 1
    /\ \/ container' = (IF container = "running" THEN Stopped ELSE container)
       \/ container = "running" /\ container' = container
    /\ \/ files' = files \ Unlinked /\ exc' = ex
       \/ /\ files \cap Unlinked # {}
          /\ files' = files
          /\ exc' = IF Handler("cleanup") = "local" THEN [ex EXCEPT !.local = TRUE]
                    ELSE [ex EXCEPT !.escaped = TRUE]

\* the finally block: stop the container (which may fail or take more than
\* the 5 seconds waited), remove the files (which may fail)
Finally(ex) ==
    /\ cleanups' = cleanups + 1
    /\ \/ container' = (IF container = "running" THEN Stopped ELSE container)
       \/ container = "running" /\ container' = container
    /\ \/ files' = files \ Unlinked /\ exc' = ex
       \/ /\ files \cap Unlinked # {}
          /\ files' = files
          /\ exc' = IF Handler("cleanup") = "local" THEN [ex EXCEPT !.local = TRUE]
                    ELSE [ex EXCEPT !.escaped = TRUE]

\* return res: the finally block runs, the caller gets res unless the
\* finally block raised
Return(res, ex) ==
    /\ Finally(ex)
    /\ IF exc'.escaped
       THEN epc' = "raised" /\ UNCHANGED result
       ELSE epc' = "returned" /\ result' = res

\* the result of the method's `except Exception as e`
OuterResult(e) ==
    CASE Method = "_execute_html_code" ->
           Result(FALSE, "", "HTML execution error: " \o e, 1)
      [] Method = "_execute_node_code" ->
           Result(FALSE, "", "Node.js execution error: " \o e, 1)
      [] Method = "execute_react_project" ->
           Result(FALSE, "React project execution failed: " \o e,
                  "React project execution failed: " \o e, 1)
      [] OTHER -> Result(FALSE, "", "Execution error: " \o e, 1)

\* an exception e raised at `stage` outside any local handler
Raise(stage, e) ==
    IF Handler(stage) = "outer"
    THEN Return(OuterResult(e), [exc EXCEPT !.outer = TRUE])
    ELSE /\ Finally([exc EXCEPT !.escaped = TRUE])
         /\ epc' = "raised"
         /\ UNCHANGED result

\* the method goes on at pc
Goto(pc) ==
    /\ epc' = pc
    /\ UNCHANGED <<result, cleanups, exc, container>>

(***************************************************************************)
(* The Runner: _execute_python_code, _execute_c_code, _execute_java_code.  *)
(***************************************************************************)
IsRunner == entry = "execute_code" /\ language \in {"python", "c", "java"}

\* tempfile.NamedTemporaryFile(...).write(code) / open(temp_java_file, 'w')
WriteSource ==
    /\ epc = "start"
    /\ IsRunner
    /\ \/ /\ files' = files \cup {"source"}
          /\ Goto(IF language = "python" THEN "spawn_run" ELSE "spawn_compile")
       \/ Raise("temp_file", "[Errno 28] No space left on device")
    /\ UNCHANGED <<call, procs, web>>
    /\ UNCHANGED <<vvars, cvars, concurrent, pvars, nvars>>

\* compile_process = await asyncio.create_subprocess_exec('gcc' | 'javac', ...)
SpawnCompile ==
    /\ epc = "spawn_compile"
    /\ \/ /\ compile_process' = [NoProcess EXCEPT !.state = "running"]
          /\ Goto("compile_wait")
          /\ UNCHANGED files
       \/ /\ Raise("spawn", "[Errno 2] No such file or directory")
          /\ UNCHANGED compile_process
    /\ UNCHANGED <<call, run_process, piped, detached, timed_out, web>>
    /\ UNCHANGED <<vvars, cvars, concurrent, pvars, nvars>>

\* what a successful compilation writes: gcc -o executable_file the
\* executable; javac {class_name}.java the class file of class_name and, for
\* a source that declares more classes (nested, anonymous, further top-level
\* ones), one class file for each of them, in the same directory
CompilerWrites ==
    IF language = "c" THEN {{"executable"}}
    ELSE {{"class"}, {"class", "other_classes"}}

\* the compiler ends: its exit status, what it wrote to stderr, the files it
\* leaves
CompilerExits ==
    /\ compile_process.state = "running"
    /\ \E rc \in ExitCodes \cup {SIGKILLED}, err \in CompilerOutputs,
          written \in CompilerWrites :
         /\ compile_process' = [compile_process EXCEPT
                                  !.state = "exited", !.returncode = rc, !.stderr = err]
         /\ files' = IF rc # 0 THEN files ELSE files \cup written
    /\ UNCHANGED <<call, epc, result, cleanups, run_process, piped, detached, timed_out, exc,
                   container, web>>
    /\ UNCHANGED <<vvars, cvars, concurrent, pvars, nvars>>

\* a compile failure reported with exit code 1 whatever the compiler's
CompilationErrorExitOne(errors, returncode) ==
    Result(FALSE, "", "Compilation error: " \o errors, 1)

\* return False, "", f"Compilation error: {errors}", compile_process.returncode
CompilationError(errors, returncode) ==
    Result(FALSE, "", "Compilation error: " \o errors, returncode)

\* compile_stdout, compile_stderr = await compile_process.communicate()
\* if compile_process.returncode != 0:
\*     return False, "", f"Compilation error: {errors}", compile_process.returncode
CompileReturns ==
    /\ epc = "compile_wait"
    /\ compile_process.state = "exited"
    /\ IF compile_process.returncode # 0
       THEN IF DecodeFails(compile_process.stderr)
            THEN Raise("decode", "'utf-8' codec can't decode byte")
            ELSE Return(CompilationError(Decode(compile_process.stderr),
                                         compile_process.returncode), exc)
       ELSE Goto("spawn_run") /\ UNCHANGED files
    /\ UNCHANGED <<call, procs, web>>
    /\ UNCHANGED <<vvars, cvars, concurrent, pvars, nvars>>

\* process = await asyncio.create_subprocess_exec('python3' | executable | 'java', ...)
SpawnRun ==
    /\ epc = "spawn_run"
    /\ \/ /\ run_process' = [NoProcess EXCEPT !.state = "running"]
          /\ Goto("run_wait")
          /\ UNCHANGED files
       \/ /\ Raise("spawn", "[Errno 2] No such file or directory")
          /\ UNCHANGED run_process
    /\ UNCHANGED <<call, compile_process, piped, detached, timed_out, web>>
    /\ UNCHANGED <<vvars, cvars, concurrent, pvars, nvars>>

\* the submitted program starts another process, which inherits the pipes
\* or redirects its output
ChildForks ==
    /\ run_process.state = "running"
    /\ piped + detached < MaxDescendants
    /\ \/ piped' = piped + 1 /\ UNCHANGED detached
       \/ detached' = detached + 1 /\ UNCHANGED piped
    /\ UNCHANGED <<call, epc, result, cleanups, compile_process, run_process, timed_out, files,
                   exc, container, web>>
    /\ UNCHANGED <<vvars, cvars, concurrent, pvars, nvars>>

DescendantExits ==
    /\ \/ piped > 0 /\ piped' = piped - 1 /\ UNCHANGED detached
       \/ detached > 0 /\ detached' = detached - 1 /\ UNCHANGED piped
    /\ UNCHANGED <<call, epc, result, cleanups, compile_process, run_process, timed_out, files,
                   exc, container, web>>
    /\ UNCHANGED <<vvars, cvars, concurrent, pvars, nvars>>

\* the submitted program ends by itself
ChildExits ==
    /\ run_process.state = "running"
    /\ \E rc \in ExitCodes, out \in ChildOutputs, err \in ChildOutputs :
         run_process' = [state |-> "exited", returncode |-> rc, stdout |-> out,
                         stderr |-> err]
    /\ UNCHANGED <<call, epc, result, cleanups, compile_process, piped, detached, timed_out,
                   files, exc, container, web>>
    /\ UNCHANGED <<vvars, cvars, concurrent, pvars, nvars>>

\* SIGKILL takes effect and the event loop reaps the child
KilledChildDies ==
    /\ run_process.state = "killed"
    /\ run_process' = [run_process EXCEPT !.state = "exited", !.returncode = SIGKILLED]
    /\ UNCHANGED <<call, epc, result, cleanups, compile_process, piped, detached, timed_out,
                   files, exc, container, web>>
    /\ UNCHANGED <<vvars, cvars, concurrent, pvars, nvars>>

\* both pipes at end of file and the child reaped
TransportFinished == run_process.state = "exited" /\ piped = 0

\* stdout_data, stderr_data = await asyncio.wait_for(process.communicate(), timeout=30.0)
\* ... success = exit_code == 0; return success, output, errors, exit_code
CommunicateReturns ==
    /\ epc = "run_wait"
    /\ TransportFinished
    /\ IF DecodeFails(run_process.stdout) \/ DecodeFails(run_process.stderr)
       THEN Raise("decode", "'utf-8' codec can't decode byte")
       ELSE Return(Result(run_process.returncode = 0, Decode(run_process.stdout),
                          Decode(run_process.stderr), run_process.returncode), exc)
    /\ UNCHANGED <<call, procs, web>>
    /\ UNCHANGED <<vvars, cvars, concurrent, pvars, nvars>>

\* the timeout reported with exit code 0
TimeoutResultExitZero == Result(FALSE, "", "Execution timeout (30s limit)", 0)

\* return False, "", "Execution timeout (30s limit)", 124
TimeoutResult == Result(FALSE, "", "Execution timeout (30s limit)", TIMEOUT_EXIT_CODE)

\* except asyncio.TimeoutError: process.kill(); await process.wait(); return ...
TimeoutFires ==
    /\ epc = "run_wait"
    /\ IF run_process.state = "running"
       THEN \* SIGKILL is sent to the child; wait() has to wait
            /\ timed_out' = "running"
            /\ run_process' = [run_process EXCEPT !.state = "killed"]
            /\ Goto("kill_wait")
            /\ UNCHANGED files
       ELSE IF TransportFinished
       THEN \* kill() raises ProcessLookupError
            /\ timed_out' = "finished"
            /\ Raise("kill", "ProcessLookupError")
            /\ UNCHANGED run_process
       ELSE \* the child was reaped, a descendant holds the pipes: kill() does
            \* nothing, wait() returns at once
            /\ timed_out' = "exited"
            /\ Return(TimeoutResult, exc)
            /\ UNCHANGED run_process
    /\ UNCHANGED <<call, compile_process, piped, detached, web>>
    /\ UNCHANGED <<vvars, cvars, concurrent, pvars, nvars>>

\* await process.wait() is over: return False, "", "Execution timeout (30s limit)", 124
WaitReturns ==
    /\ epc = "kill_wait"
    /\ run_process.state = "exited"
    /\ Return(TimeoutResult, exc)
    /\ UNCHANGED <<call, procs, web>>
    /\ UNCHANGED <<vvars, cvars, concurrent, pvars, nvars>>

RunnerStep ==
    \/ WriteSource
    \/ SpawnCompile
    \/ CompileReturns
    \/ SpawnRun
    \/ CommunicateReturns
    \/ TimeoutFires
    \/ WaitReturns

RunnerEnvironment ==
    \/ CompilerExits
    \/ ChildForks
    \/ DescendantExits
    \/ ChildExits
    \/ KilledChildDies

(***************************************************************************)
(* Playwright.  `async with async_playwright() as p` stops the driver when *)
(* the block is left, by return or by exception, and the driver ends the   *)
(* browsers it launched.                                                   *)
(***************************************************************************)
\* leaving the block without the driver ending its browsers
PlaywrightExitLeavesBrowser(b) == b

\* async with async_playwright() as p: ... (the block is left)
PlaywrightExit(b) == IF b = "open" THEN "closed" ELSE b

(***************************************************************************)
(* _execute_html_code                                                      *)
(***************************************************************************)
\* temp_dir = tempfile.mkdtemp(prefix="html_"); write index.html
HtmlWrite ==
    /\ epc = "start"
    /\ entry = "execute_code"
    /\ language = "html"
    /\ \/ files' = files \cup {"temp_dir"} /\ Goto("html_launch")
       \/ Raise("temp_file", "[Errno 28] No space left on device")
    /\ UNCHANGED <<call, procs, web>>
    /\ UNCHANGED <<vvars, cvars, concurrent, pvars, nvars>>

\* browser = await p.chromium.launch(headless=True)
HtmlLaunch ==
    /\ epc = "html_launch"
    /\ \/ browser' = "open" /\ Goto("html_render") /\ UNCHANGED files
       \/ Raise("render", "Executable doesn't exist") /\ UNCHANGED browser
    /\ UNCHANGED <<call, procs, docker, screenshots, route_index, waits, pending, materialized>>
    /\ UNCHANGED <<vvars, cvars, concurrent, pvars, nvars>>

\* page = await browser.new_page(); await page.goto(...); ...
\* output_html = await page.content(); await browser.close()
\* return True, output_html, logs, 0
HtmlRender ==
    /\ epc = "html_render"
    /\ \/ /\ browser' = "closed"
          /\ \E console \in {"", "[log] hi"} :
               Return(Result(TRUE, "<html></html>", console, 0), exc)
       \/ /\ browser' = PlaywrightExit(browser)
          /\ Raise("render", "Page.goto: Timeout 30000ms exceeded")
    /\ UNCHANGED <<call, procs, docker, screenshots, route_index, waits, pending, materialized>>
    /\ UNCHANGED <<vvars, cvars, concurrent, pvars, nvars>>

(***************************************************************************)
(* WebExecutionService._capture_webpage_screenshot                         *)
(***************************************************************************)
\* browser = await p.chromium.launch(headless=True, args=[...])
WebCaptureLaunch ==
    /\ epc = "start"
    /\ entry = "_capture_webpage_screenshot"
    /\ \/ browser' = "open" /\ Goto("web_capture") /\ UNCHANGED files
       \/ Raise("screenshot", "Executable doesn't exist") /\ UNCHANGED browser
    /\ UNCHANGED <<call, procs, docker, screenshots, route_index, waits, pending, materialized>>
    /\ UNCHANGED <<vvars, cvars, concurrent, pvars, nvars>>

\* try: page = await browser.new_page(); ...; await page.screenshot(...)
\*      return str(screenshot_path)
\* finally: await browser.close()
WebCaptureShot ==
    /\ epc = "web_capture"
    /\ browser' = "closed"
    /\ \/ Return(Result(TRUE, "webpage_screenshot.png", "", 0), exc)
       \/ Raise("screenshot", "Page.goto: Timeout 30000ms exceeded")
    /\ UNCHANGED <<call, procs, docker, screenshots, route_index, waits, pending, materialized>>
    /\ UNCHANGED <<vvars, cvars, concurrent, pvars, nvars>>

(***************************************************************************)
(* _execute_node_code, also run by _execute_react_code for simple code     *)
(***************************************************************************)
\* temp_dir = tempfile.mkdtemp(prefix="node_"); write package.json, server.js
NodeWrite ==
    /\ epc = "start"
    /\ entry = "execute_code"
    /\ Method = "_execute_node_code"
    /\ \/ files' = files \cup {"temp_dir"} /\ Goto("node_spawn")
       \/ Raise("temp_file", "[Errno 28] No space left on device")
    /\ UNCHANGED <<call, procs, web>>
    /\ UNCHANGED <<vvars, cvars, concurrent, pvars, nvars>>

\* process = await asyncio.create_subprocess_exec('docker', 'run', '--rm', ...)
\* await asyncio.sleep(5)
NodeSpawn ==
    /\ epc = "node_spawn"
    /\ \/ /\ epc' = "node_fetch"
          /\ container' \in {"running", "none"}
          /\ UNCHANGED <<result, cleanups, exc, files>>
       \/ Raise("spawn", "[Errno 2] No such file or directory")
    /\ UNCHANGED <<call, procs, web>>
    /\ UNCHANGED <<vvars, cvars, concurrent, pvars, nvars>>

\* async with session.get("http://host.docker.internal:3000", ...) as response
\* except Exception as e: output_html = "Server started (no response captured)"
NodeFetch ==
    /\ epc = "node_fetch"
    /\ \/ /\ container = "running"
          /\ pending' = [output_html |-> "<h1>hi</h1>", logs |-> "HTTP 200 OK"]
          /\ UNCHANGED exc
       \/ /\ Handler("fetch") = "local"
          /\ pending' = [output_html |-> "Server started (no response captured)",
                         logs |-> "Server started but connection failed: refused"]
          /\ exc' = [exc EXCEPT !.local = TRUE]
    /\ epc' = "node_stop"
    /\ UNCHANGED <<call, procs, result, cleanups, files, container, docker, capture,
                   materialized>>
    /\ UNCHANGED <<vvars, cvars, concurrent, pvars, nvars>>

\* terminate_process = await asyncio.create_subprocess_exec('docker', 'stop', ...)
\* except: pass
NodeStop ==
    /\ epc = "node_stop"
    /\ \/ /\ helper' = [NoProcess EXCEPT !.state = "running"]
          /\ epc' = "node_stop_wait"
          /\ UNCHANGED exc
       \/ /\ Handler("docker_stop") = "local"
          /\ epc' = "node_return"
          /\ exc' = [exc EXCEPT !.local = TRUE]
          /\ UNCHANGED helper
    /\ UNCHANGED <<call, procs, result, cleanups, files, container, attempt, probe, container_logs, port, allocation, capture,
                   pending, materialized>>
    /\ UNCHANGED <<vvars, cvars, concurrent, pvars, nvars>>

\* await terminate_process.wait()
NodeStopReturns ==
    /\ epc = "node_stop_wait"
    /\ helper.state = "exited"
    /\ epc' = "node_return"
    /\ UNCHANGED <<call, procs, result, cleanups, files, exc, container, web>>
    /\ UNCHANGED <<vvars, cvars, concurrent, pvars, nvars>>

\* return True, output_html, logs, 0
NodeReturns ==
    /\ epc = "node_return"
    /\ Return(Result(TRUE, pending.output_html, pending.logs, 0), exc)
    /\ UNCHANGED <<call, procs, web>>
    /\ UNCHANGED <<vvars, cvars, concurrent, pvars, nvars>>

(***************************************************************************)
(* execute_react_project, also run by _execute_react_code, which returns   *)
(* its success, output, logs and exit_code                                 *)
(***************************************************************************)
\* routes or ["/"]
RoutesOrRoot(r) == IF r = <<>> THEN <<"/">> ELSE r

\* self._capture_react_routes(routes or ["/"], port, container_name)
CaptureRoutes == RoutesOrRoot(routes)

\* what `docker run` says when the host port is bound by someone else
PortAllocated == "Bind for 0.0.0.0:50000 failed: port is already allocated"

\* the exit status of a docker CLI command that failed
DockerFailures == {1, 125}

\* what the container has written so far
ContainerOutputs == {"", "=== Starting React project ===", "npm ERR! code ENOTFOUND"}

\* logs = logs_stdout.decode() + "\n" + logs_stderr.decode()
JoinLogs(out, err) == out \o "\n" \o err

\* raise Exception(f"Container stopped unexpectedly. Logs:\n{logs}")
ContainerStoppedMessage(l) == "Container stopped unexpectedly. Logs:\n" \o l

\* except Exception as e: if "Container stopped" in str(e): raise
IsCritical(e) == Contains(e, "Container stopped")

\* screenshots[route] = value
Store(shots, route, value) ==
    [r \in DOMAIN shots \cup {route} |-> IF r = route THEN value ELSE shots[r]]

\* html_content = await page.content()
Markup(route) == "<div id=\"root\">" \o route \o "</div>"

\* max_wait = 30
max_wait == 30

\* the root node of the page at the end of the wait: the elements the
\* application rendered into it, whether it holds the marker that the init
\* script of the capture appends on DOMContentLoaded (React's first render
\* empties the node), and document.getElementById('root')?.children.length
Wait(attempts, rendered, marker) ==
    [attempts |-> attempts, rendered |-> rendered, marker |-> marker,
     root_children |-> rendered + (IF marker THEN 1 ELSE 0)]

\* what the wait for React to mount ends with: the loop is left at the
\* first pass that finds children in the root, or with its passes used up
CaptureWaits == { Wait(1, 1, FALSE),
                  Wait(max_wait, 2, FALSE),
                  Wait(max_wait, 0, FALSE),
                  Wait(1, 0, TRUE) }

\* a pass that raised before the wait loop was through
NoWait == Wait(0, 0, FALSE)

\* the wait loop used up its passes and React had not mounted
TimedOut(w) == w.attempts = max_wait /\ w.root_children = 0

\* page.content() at the end of the wait w
PageContent(route, w) ==
    IF w.rendered > 0 THEN Markup(route)
    ELSE IF w.marker
    THEN "<div id=\"root\"><div id=\"__labmate_inline_debug\">INLINE_SCRIPT_RAN</div></div>"
    ELSE "<div id=\"root\"></div>"

\* what page.goto, page.evaluate and page.content raise
CaptureErrors == {"Page.goto: net::ERR_CONNECTION_REFUSED",
                  "Page.evaluate: Execution context was destroyed"}

\* a capture error that leaves no entry for the route
AfterCaptureErrorAbsent(shots, route, e) == shots

\* a capture error that drops what was captured before
AfterCaptureErrorReset(shots, route, e) ==
    [r \in {route} |-> "Error capturing route: " \o e]

\* except Exception as e: screenshots[route] = f"Error capturing route: {str(e)}"
AfterCaptureError(shots, route, e) == Store(shots, route, "Error capturing route: " \o e)

\* the fifth value returned: screenshots on success, {} on failure
ReturnedScreenshots == IF result.success THEN screenshots ELSE <<>>

\* os.makedirs(base_temp_dir, exist_ok=True); os.makedirs(temp_dir, exist_ok=True)
ReactMakeDirs ==
    /\ epc = "start"
    /\ Method = "execute_react_project"
    /\ \/ files' = files \cup {"temp_dir"} /\ Goto("react_setup")
       \/ Raise("temp_file", "[Errno 13] Permission denied")
    /\ UNCHANGED <<call, procs, web>>
    /\ UNCHANGED <<vvars, cvars, concurrent, pvars, nvars>>

\* for attempt in range(100)
MAX_PORT_ATTEMPTS == 100

\* random.randint(50000, 60000)
PORT_MIN == 50000

PORT_MAX == 60000

\* draws that bind() is tried on: the two ends of the range
RandomPortsPastRange == {PORT_MIN, PORT_MAX + 1}

RandomPorts == {PORT_MIN, PORT_MAX}

\* how many draws bind() may fail on before one succeeds: none, one, all but
\* the last
FailedBinds == {0, 1, MAX_PORT_ATTEMPTS - 1}

\* port = find_free_port(): up to 100 draws; the first on which bind() and
\* listen() succeed is returned, the probing socket closed again; after 100
\* failures: raise Exception("Could not find an available port ...")
FindFreePort ==
    /\ epc = "react_setup"
    /\ \/ \E failed \in FailedBinds, p \in RandomPorts :
            /\ allocation' = [binds |-> failed + 1, number |-> p]
            /\ port' = "free"
            /\ Goto("react_materialize")
            /\ UNCHANGED files
       \/ /\ allocation' = [binds |-> MAX_PORT_ATTEMPTS, number |-> NoAllocation.number]
          /\ Raise("port_allocation",
                   "Could not find an available port in the safe range (50000-60000) after 100 attempts.")
          /\ UNCHANGED port
    /\ UNCHANGED <<call, procs, helper, attempt, probe, container_logs, capture, pending,
                   materialized>>
    /\ UNCHANGED <<vvars, cvars, concurrent, pvars, nvars>>

\* await self._create_react_project_structure(temp_dir, project_files, port)
CreateReactProjectStructure ==
    /\ epc = "react_materialize"
    /\ \/ materialized' = TRUE /\ Goto("react_launch") /\ UNCHANGED files
       \/ /\ materialized' \in BOOLEAN
          /\ Raise("project_materialization", "[Errno 28] No space left on device")
    /\ UNCHANGED <<call, procs, docker, capture, pending>>
    /\ UNCHANGED <<vvars, cvars, concurrent, pvars, nvars>>

\* another request or process binds the port after the probe and before the
\* container publishes it
PortTaken ==
    /\ port = "free"
    /\ epc \in {"react_launch", "react_launch_wait"}
    /\ helper.state # "exited"
    /\ port' = "taken"
    /\ UNCHANGED <<call, procs, epc, result, cleanups, files, exc, container, helper, attempt, probe, allocation, container_logs,
                   capture, pending, materialized>>
    /\ UNCHANGED <<vvars, cvars, concurrent, pvars, nvars>>

\* _start_react_container: await asyncio.create_subprocess_exec('docker', 'rm',
\* '-f', container_name) (started, never waited for);
\* process = await asyncio.create_subprocess_exec(
\*     'docker', 'run', '-d', '--name', container_name, '-p', f'{port}:{port}', ...)
ReactLaunch ==
    /\ epc = "react_launch"
    /\ \/ /\ helper' = [NoProcess EXCEPT !.state = "running"]
          /\ Goto("react_launch_wait")
          /\ UNCHANGED files
       \/ /\ Raise("container_launch", "[Errno 2] No such file or directory")
          /\ UNCHANGED helper
    /\ UNCHANGED <<call, procs, attempt, probe, container_logs, port, allocation, capture, pending, materialized>>
    /\ UNCHANGED <<vvars, cvars, concurrent, pvars, nvars>>

\* the docker CLI child ends.  `docker run -d -p` has started the container;
\* or created it and failed to publish a port that is taken; or failed
\* before creating it.  `docker stop` has stopped the container or failed.
HelperExits ==
    /\ helper.state = "running"
    /\ IF epc = "react_launch_wait"
       THEN \/ /\ port = "free"
               /\ helper' = [helper EXCEPT !.state = "exited", !.returncode = 0]
               /\ container' = "running"
            \/ /\ port = "taken"
               /\ \E rc \in DockerFailures :
                    helper' = [helper EXCEPT !.state = "exited", !.returncode = rc,
                                             !.stderr = PortAllocated]
               /\ container' = "created"
            \/ /\ \E rc \in DockerFailures :
                    helper' = [helper EXCEPT !.state = "exited", !.returncode = rc,
                                             !.stderr = "docker: error"]
               /\ UNCHANGED container
       ELSE \E rc \in {0} \cup DockerFailures :
              /\ helper' = [helper EXCEPT !.state = "exited", !.returncode = rc,
                                          !.stderr = IF rc = 0 THEN "" ELSE "docker: error"]
              /\ container' = IF rc = 0 /\ container = "running" THEN Stopped
                              ELSE container
    /\ UNCHANGED <<call, procs, epc, result, cleanups, files, exc, attempt, probe, container_logs, port, allocation, capture,
                   pending, materialized>>
    /\ UNCHANGED <<vvars, cvars, concurrent, pvars, nvars>>

\* the container's command ends by itself
ContainerStops ==
    /\ container = "running"
    /\ container' = Stopped
    /\ UNCHANGED <<call, procs, epc, result, cleanups, files, exc, web>>
    /\ UNCHANGED <<vvars, cvars, concurrent, pvars, nvars>>

\* the `docker rm -f container_name` that _start_react_container started
\* and did not wait for reaches the daemon after `docker run` has created
\* the container
StaleRemove ==
    /\ Method = "execute_react_project"
    /\ epc \in {"react_launch_wait", "react_poll"}
    /\ attempt = 0
    /\ container \in {"created", "running"}
    /\ container' = "removed"
    /\ UNCHANGED <<call, procs, epc, result, cleanups, files, exc, web>>
    /\ UNCHANGED <<vvars, cvars, concurrent, pvars, nvars>>

\* a launch that hands over to the capture stage as soon as `docker run`
\* exited with 0, without polling for readiness
ReactLaunchReturnsUnpolled ==
    /\ epc = "react_launch_wait"
    /\ helper.state = "exited"
    /\ IF helper.returncode # 0
       THEN Raise("container_launch", "Failed to start container: " \o helper.stderr)
       ELSE Goto("react_capture") /\ UNCHANGED files
    /\ UNCHANGED <<call, procs, web>>
    /\ UNCHANGED <<vvars, cvars, concurrent, pvars, nvars>>

\* stdout, stderr = await process.communicate()
\* if process.returncode != 0: raise Exception(f"Failed to start container: {error_msg}")
ReactLaunchReturns ==
    /\ epc = "react_launch_wait"
    /\ helper.state = "exited"
    /\ IF helper.returncode # 0
       THEN Raise("container_launch", "Failed to start container: " \o helper.stderr)
       ELSE Goto("react_poll") /\ UNCHANGED files
    /\ UNCHANGED <<call, procs, web>>
    /\ UNCHANGED <<vvars, cvars, concurrent, pvars, nvars>>

\* what GET http://{container_name}:{port} may answer: resp.status, resp.text()
ProbeResponses ==
    { [status |-> 200, text |-> "<body><div id=\"root\"></div></body>"],
      [status |-> 200, text |-> "<script type=\"module\" src=\"/@vite/client\"></script>"],
      [status |-> 200, text |-> "<h1>It works</h1>"],
      [status |-> 404, text |-> "Not Found"],
      [status |-> 500, text |-> "<body><div id=\"root\"></div></body>"] }

\* a readiness test that takes every 200 answer
IsReadyAnyOk(resp) == resp.status = 200

\* if resp.status == 200: ... if '<div id="root"' in text or 'vite/client' in text
\*                               or '/@vite/client' in text: return
IsReady(resp) ==
    /\ resp.status = 200
    /\ \/ Contains(resp.text, "<div id=\"root\"")
       \/ Contains(resp.text, "vite/client")
       \/ Contains(resp.text, "/@vite/client")

\* logs = logs_stdout.decode() + "\n" + logs_stderr.decode(), for what the
\* container wrote
LogsFetched == {JoinLogs(out, "") : out \in ContainerOutputs}

\* str(e) of the UnicodeDecodeError of logs_stdout.decode() for output that
\* is not UTF-8
UndecodableLogs == "'utf-8' codec can't decode byte 0xff in position 0: invalid start byte"

\* except Exception as e: if "Container stopped" in str(e): raise
\* (otherwise: await asyncio.sleep(5), next attempt)
HealthCheckError(e) ==
    IF IsCritical(e)
    THEN Raise("readiness_polling", e) /\ UNCHANGED attempt
    ELSE /\ attempt' = attempt + 1
         /\ exc' = [exc EXCEPT !.local = TRUE]
         /\ UNCHANGED <<epc, result, cleanups, files, container>>

\* for attempt in range(24): docker ps; if the container is not listed:
\* docker logs, raise; GET http://{container_name}:{port}: return when the
\* index is served; await asyncio.sleep(5)
ReactPoll ==
    /\ epc = "react_poll"
    /\ attempt < MaxAttempts
    /\ \/ /\ container # "running"
          /\ UNCHANGED probe
          /\ \/ \E l \in LogsFetched :
                  /\ container_logs' = l
                  /\ HealthCheckError(ContainerStoppedMessage(l))
             \/ /\ UNCHANGED container_logs
                /\ HealthCheckError(UndecodableLogs)
       \/ /\ container = "running"
          /\ \E resp \in ProbeResponses :
               /\ probe' = resp
               /\ IF IsReady(resp)
                  THEN Goto("react_capture") /\ UNCHANGED <<files, attempt>>
                  ELSE /\ attempt' = attempt + 1
                       /\ UNCHANGED <<epc, result, cleanups, files, exc, container>>
          /\ UNCHANGED container_logs
       \/ /\ container = "running"
          /\ Handler("probe") = "local"
          /\ probe' = NoResponse
          /\ attempt' = attempt + 1
          /\ exc' = [exc EXCEPT !.local = TRUE]
          /\ UNCHANGED <<epc, result, cleanups, files, container, container_logs>>
    /\ UNCHANGED <<call, procs, helper, port, allocation, capture, pending, materialized>>
    /\ UNCHANGED <<vvars, cvars, concurrent, pvars, nvars>>

\* logs = ...  (docker logs --tail 100, printed; a failure to fetch them is
\* printed too)
\* raise Exception("React dev server failed to start after 120 seconds")
ReactPollTimeout ==
    /\ epc = "react_poll"
    /\ attempt = MaxAttempts
    /\ LET e == "React dev server failed to start after 120 seconds"
       IN  \/ /\ \E out \in ContainerOutputs : container_logs' = JoinLogs(out, "")
              /\ Raise("readiness_polling", e)
           \/ /\ UNCHANGED container_logs
              /\ Return(OuterResult(e), [exc EXCEPT !.outer = TRUE, !.local = TRUE])
    /\ UNCHANGED <<call, procs, helper, attempt, probe, port, allocation, capture, pending, materialized>>
    /\ UNCHANGED <<vvars, cvars, concurrent, pvars, nvars>>

\* _capture_react_routes: async with async_playwright() as p:
\*     browser = await p.chromium.launch(headless=True)
ReactBrowser ==
    /\ epc = "react_capture"
    /\ \/ browser' = "open" /\ Goto("react_page") /\ UNCHANGED files
       \/ Raise("browser", "Executable doesn't exist") /\ UNCHANGED browser
    /\ UNCHANGED <<call, procs, docker, screenshots, route_index, waits, pending, materialized>>
    /\ UNCHANGED <<vvars, cvars, concurrent, pvars, nvars>>

\* page = await browser.new_page(); page.on(...); await page.add_init_script(...);
\* await page.expose_function(...)
ReactPage ==
    /\ epc = "react_page"
    /\ \/ Goto("react_routes") /\ UNCHANGED <<files, browser>>
       \/ /\ browser' = PlaywrightExit(browser)
          /\ Raise("browser", "Page.add_init_script: Target closed")
    /\ UNCHANGED <<call, procs, docker, screenshots, route_index, waits, pending, materialized>>
    /\ UNCHANGED <<vvars, cvars, concurrent, pvars, nvars>>

\* for route in routes:
\*     try: await page.goto(url, ...); ...; try: <debug output> except: print;
\*          html_content = await page.content(); screenshots[route] = html_content
\*     except Exception as e: screenshots[route] = f"Error capturing route: {str(e)}"
ReactCaptureRoute ==
    /\ epc = "react_routes"
    /\ route_index < Len(CaptureRoutes)
    /\ LET route == CaptureRoutes[route_index + 1]
       IN  \/ \E w \in CaptureWaits :
                /\ waits' = Store(waits, route, w)
                /\ screenshots' = Store(screenshots, route,
                                        PageContent(route, w))
                /\ \/ UNCHANGED exc
                   \/ \* an error in the debug output, printed
                      exc' = [exc EXCEPT !.local = TRUE]
           \/ /\ Handler("capture") = "local"
              /\ \E e \in CaptureErrors :
                   screenshots' = AfterCaptureError(screenshots, route, e)
              /\ waits' = Store(waits, route, NoWait)
              /\ exc' = [exc EXCEPT !.local = TRUE]
    /\ route_index' = route_index + 1
    /\ UNCHANGED <<call, procs, epc, result, cleanups, files, container, docker, browser, pending, materialized>>
    /\ UNCHANGED <<vvars, cvars, concurrent, pvars, nvars>>

\* await browser.close(); return screenshots
\* return True, "All routes captured successfully", ..., 0, screenshots
ReactReturns ==
    /\ epc = "react_routes"
    /\ route_index = Len(CaptureRoutes)
    /\ \/ /\ browser' = "closed"
          /\ Return(Result(TRUE, "All routes captured successfully",
                           "All routes captured successfully", 0), exc)
       \/ /\ browser' = PlaywrightExit(browser)
          /\ Raise("browser", "Browser.close: Connection closed")
    /\ UNCHANGED <<call, procs, docker, screenshots, route_index, waits, pending, materialized>>
    /\ UNCHANGED <<vvars, cvars, concurrent, pvars, nvars>>

WebStep ==
    \/ HtmlWrite
    \/ HtmlLaunch
    \/ HtmlRender
    \/ WebCaptureLaunch
    \/ WebCaptureShot
    \/ NodeWrite
    \/ NodeSpawn
    \/ NodeFetch
    \/ NodeStop
    \/ NodeStopReturns
    \/ NodeReturns
    \/ ReactMakeDirs
    \/ FindFreePort
    \/ CreateReactProjectStructure
    \/ ReactLaunch
    \/ ReactLaunchReturns
    \/ ReactPoll
    \/ ReactPollTimeout
    \/ ReactBrowser
    \/ ReactPage
    \/ ReactCaptureRoute
    \/ ReactReturns

WebEnvironment ==
    \/ HelperExits
    \/ ContainerStops
    \/ PortTaken
    \/ StaleRemove

(***************************************************************************)
(* The two request paths: TaskService.submit_tasks and POST /run.          *)
(***************************************************************************)
KnownThemes == {"idle", "vscode", "notepad", "codeblocks", "html", "react", "node"}

\* what a client may send as theme: a known one, none, any other text
RequestThemes == KnownThemes \cup {"", "dark"}

\* Upload.language: None, a supported language, any other text
UploadLanguages == Languages \cup {"", "javascript"}

TaskTypes == {"screenshot_request", "code_execution", "react_project", "answer_request"}

\* task.routes: None or empty, or a list
TaskRoutes == {<<>>, <<"/">>, <<"/", "/about">>}

\* settings.REACT_DEFAULT_ROUTES
REACT_DEFAULT_ROUTES == <<"/", "/about", "/contact">>

EmptySource == [lines |-> <<>>, pad |-> 0]

CoordLines ==
    { Stmt(Expr(Call(Name("print"), <<Name("x")>>))),
      Stmt(Import(<<Alias("os", "")>>)),
      Stmt(Expr(Call(Attribute(Name("items"), "append"), <<Name("x")>>))),
      Garbage("int main() { return 0; }") }

CoordSources ==
    {[lines |-> <<l>>, pad |-> 0] : l \in CoordLines}
        \cup {EmptySource, [lines |-> <<>>, pad |-> MAX_CODE_LENGTH + 1]}

\* what execute_code may return
ExecutorResults ==
    { Result(TRUE, "hi", "", 0), Result(FALSE, "", "Traceback", 1),
      Result(FALSE, "", "", 1), TimeoutResult }

NotValidated == [called |-> FALSE, allowed |-> FALSE, reason |-> ""]

Validated(verdict) == [called |-> TRUE, allowed |-> verdict.allowed, reason |-> verdict.reason]

NotInvoked == [method |-> "none", language |-> ""]

Invoked(method, lang) == [method |-> method, language |-> lang]

CoordStart ==
    /\ path \in {"task", "run"}
    /\ theme \in RequestThemes
    /\ user_code \in CoordSources
    /\ IF path = "task"
       THEN /\ upload_language \in UploadLanguages
            /\ task_type \in TaskTypes
            /\ project_files \in BOOLEAN
            /\ task_routes \in IF task_type = "react_project" THEN TaskRoutes ELSE {<<>>}
       ELSE /\ upload_language = ""
            /\ task_type = ""
            /\ project_files = FALSE
            /\ task_routes = <<>>
    /\ cpc = "start"
    /\ job_theme = ""
    /\ job_status = "none"
    /\ task_status = "none"
    /\ message = ""
    /\ validated = NotValidated
    /\ invoked = NotInvoked
    /\ appended = FALSE
    /\ propagated = FALSE
    /\ task_stdout = <<>>
    /\ task_exit_code = <<>>
    /\ returned = NoResult
    /\ passed_routes = <<>>

CoordIdle ==
    /\ path = "none"
    /\ theme = ""
    /\ user_code = EmptySource
    /\ upload_language = ""
    /\ task_type = ""
    /\ project_files = FALSE
    /\ task_routes = <<>>
    /\ cpc = "idle"
    /\ job_theme = ""
    /\ job_status = "none"
    /\ task_status = "none"
    /\ message = ""
    /\ validated = NotValidated
    /\ invoked = NotInvoked
    /\ appended = FALSE
    /\ propagated = FALSE
    /\ task_stdout = <<>>
    /\ task_exit_code = <<>>
    /\ returned = NoResult
    /\ passed_routes = <<>>

\* TaskService._map_language_to_theme
MapLanguageToTheme(lang) ==
    CASE lang = "python" -> "idle"
      [] lang = "java"   -> "notepad"
      [] lang = "c"      -> "codeblocks"
      [] lang = "html"   -> "html"
      [] lang = "react"  -> "react"
      [] lang = "node"   -> "node"
      [] OTHER           -> "idle"

\* submit_tasks: "Normalize theme based on upload language"
NormalizedTheme(t, lang) ==
    IF lang = "" THEN t
    ELSE LET lang_theme == MapLanguageToTheme(lang)
             t1 == IF t = "" \/ t \notin KnownThemes THEN lang_theme ELSE t
         IN  IF lang \in {"c", "java", "html", "react", "node"} /\ t1 \in {"idle", "vscode"}
             THEN lang_theme
             ELSE t1

\* a theme test that knows "idle" only
IsPythonThemeIdleOnly(t) == t \in {"idle"}

\* _execute_code_task: is_python_theme = job.theme in ["idle", "vscode"]

IsPythonTheme(t) == t \in {"idle", "vscode"}

\* "Determine language based on theme"
LanguageOfTheme(t) ==
    CASE t = "codeblocks" -> "c"
      [] t = "notepad"    -> "java"
      [] t = "html"       -> "html"
      [] t = "react"      -> "react"
      [] t = "node"       -> "node"
      [] OTHER            -> "python"

\* a message without the validator's reason
ValidationFailedGeneric(reason) == "Code validation failed"

\* f"Code validation failed: {error_msg}"

ValidationFailed(reason) == "Code validation failed: " \o reason

\* not code: the empty string
IsEmpty(src) == CodeLen(src) = 0

\* not code_snippet.strip()
IsBlankSource(src) == IsBlank(SourceText(src))

\* an exception leaves _process_single_task and _process_job
TaskRaise ==
    /\ task_status' = "failed"
    /\ job_status' = "failed"
    /\ propagated' = TRUE
    /\ cpc' = "done"

\* submit_tasks up to `await self._process_job(job.id, db)`: the job and its
\* task are created with status "pending" and committed
SubmitTasks ==
    /\ cpc = "start"
    /\ path = "task"
    /\ job_theme' = NormalizedTheme(theme, upload_language)
    /\ job_status' = "pending"
    /\ task_status' = "pending"
    /\ cpc' = "process"
    /\ UNCHANGED <<request, user_code, message, validated, invoked, appended, propagated>>
    /\ UNCHANGED stored
    /\ UNCHANGED <<vvars, evars, concurrent, pvars, nvars>>

\* _process_job: job.status = "running"; _process_single_task:
\* task.status = "running", up to the first await
ProcessJob ==
    /\ cpc = "process"
    /\ job_status' = "running"
    /\ task_status' = "running"
    /\ cpc' = IF IsEmpty(user_code) /\ task_type \in {"screenshot_request", "code_execution",
                                                      "answer_request"}
              THEN "generating" ELSE "dispatch"
    /\ UNCHANGED <<request, user_code, job_theme, message, validated, invoked, appended,
                   propagated>>
    /\ UNCHANGED stored
    /\ UNCHANGED <<vvars, evars, concurrent, pvars, nvars>>

\* await analysis_service.generate_code_and_answer(...)
\* task.user_code = code_result.get("code", "")
CodeGenerated ==
    /\ cpc = "generating"
    /\ \/ /\ IF task_type = "answer_request" THEN UNCHANGED user_code
             ELSE user_code' \in CoordSources
          /\ cpc' = "dispatch"
          /\ UNCHANGED <<job_status, task_status, propagated>>
       \/ TaskRaise /\ UNCHANGED user_code
    /\ UNCHANGED <<request, job_theme, message, validated, invoked, appended>>
    /\ UNCHANGED stored
    /\ UNCHANGED <<vvars, evars, concurrent, pvars, nvars>>

\* _execute_code_task up to `await executor_service.execute_code(...)`
ExecuteCodeTask ==
    /\ cpc = "dispatch"
    /\ task_type \in {"screenshot_request", "code_execution"}
    /\ ~IsEmpty(user_code)
    /\ LET verdict == ValidateCode(user_code, "python")
       IN  IF IsPythonTheme(job_theme)
           THEN /\ validated' = Validated(verdict)
                /\ IF ~verdict.allowed
                   THEN /\ task_status' = "failed"
                        /\ message' = ValidationFailed(verdict.reason)
                        /\ cpc' = "task_commit"
                        /\ UNCHANGED <<invoked, job_status>>
                   ELSE /\ invoked' = Invoked("execute_code", LanguageOfTheme(job_theme))
                        /\ cpc' = "executing"
                        /\ UNCHANGED <<task_status, message, job_status>>
           ELSE /\ invoked' = Invoked("execute_code", LanguageOfTheme(job_theme))
                /\ cpc' = "executing"
                /\ UNCHANGED <<validated, task_status, message, job_status>>
    /\ UNCHANGED <<request, user_code, job_theme, appended, propagated>>
    /\ UNCHANGED stored
    /\ UNCHANGED <<vvars, evars, concurrent, pvars, nvars>>

\* _execute_code_task after execute_code returned: screenshot, caption,
\* task.status = "completed" if success else "failed"
ExecuteCodeTaskReturns ==
    /\ cpc = "executing"
    /\ path = "task"
    /\ invoked.method = "execute_code"
    /\ \E r \in ExecutorResults :
         /\ returned' = r
         /\ task_stdout' = <<r.output>>
         /\ task_exit_code' = <<r.exit_code>>
         /\ \/ /\ task_status' = IF r.success THEN "completed" ELSE "failed"
               /\ message' \in {"The program prints hi",
                                IF r.exit_code = 0 THEN "Code execution successful"
                                ELSE "Code execution failed"}
               /\ cpc' = "task_commit"
               /\ UNCHANGED <<job_status, propagated>>
            \/ \* screenshot_service.generate_screenshot raises
               /\ r.success
               /\ TaskRaise
               /\ UNCHANGED message
    /\ UNCHANGED <<request, user_code, job_theme, validated, invoked, appended,
                   passed_routes>>
    /\ UNCHANGED <<vvars, evars, concurrent, pvars, nvars>>

\* routes = task.routes or settings.REACT_DEFAULT_ROUTES
DefaultedRoutes(r) == IF r = <<>> THEN REACT_DEFAULT_ROUTES ELSE r

\* _execute_react_project_task up to `await executor_service.execute_react_project(...)`
ExecuteReactProjectTask ==
    /\ cpc = "dispatch"
    /\ task_type = "react_project"
    /\ IF ~project_files
       THEN /\ task_status' = "failed"
            /\ message' = "No project files found"
            /\ cpc' = "task_commit"
            /\ UNCHANGED <<invoked, passed_routes, job_status>>
       ELSE /\ invoked' = Invoked("execute_react_project", "react")
            /\ passed_routes' = DefaultedRoutes(task_routes)
            /\ cpc' = "executing"
            /\ UNCHANGED <<task_status, message, job_status>>
    /\ UNCHANGED <<request, user_code, job_theme, validated, appended, propagated>>
    /\ UNCHANGED <<task_stdout, task_exit_code, returned>>
    /\ UNCHANGED <<vvars, evars, concurrent, pvars, nvars>>

\* what execute_react_project may return:
\* (success, output, logs, exit_code, screenshots_by_route)
ProjectResult(success, output, logs, exit_code, shots) ==
    [success |-> success, output |-> output, logs |-> logs, exit_code |-> exit_code,
     screenshots |-> shots]

ProjectResults ==
    { ProjectResult(TRUE, "All routes captured successfully",
                    "All routes captured successfully", 0,
                    [r \in {RoutesOrRoot(passed_routes)[i] :
                               i \in 1..Len(RoutesOrRoot(passed_routes))}
                       |-> "<div id=\"root\"></div>"]),
      ProjectResult(FALSE, "React project execution failed: Failed to start container",
                    "React project execution failed: Failed to start container", 1, <<>>) }

\* a, b, c, d = value: the value has as many items as there are names
UnpacksIntoFourNames(value) == Cardinality(DOMAIN value) = 4

\* success, screenshots_by_route, logs, exit_code = await execute_react_project(...)
\* task.stdout = logs; task.exit_code = exit_code; ...
\* task.status = "completed" if success else "failed"
ExecuteReactProjectTaskReturns ==
    /\ cpc = "executing"
    /\ invoked.method = "execute_react_project"
    /\ \E r \in ProjectResults :
         /\ returned' = r
         /\ IF UnpacksIntoFourNames(r)
            THEN \* the names take the first four items in order
                 /\ task_stdout' = <<r.logs>>
                 /\ task_exit_code' = <<r.exit_code>>
                 /\ task_status' = IF r.success THEN "completed" ELSE "failed"
                 /\ message' = IF r.success /\ r.output # ""
                               THEN "React SPA project captured successfully"
                               ELSE "React project execution failed"
                 /\ cpc' = "task_commit"
                 /\ UNCHANGED <<job_status, propagated>>
            ELSE \* ValueError: too many values to unpack (expected 4)
                 /\ TaskRaise
                 /\ UNCHANGED <<task_stdout, task_exit_code, message>>
    /\ UNCHANGED <<request, user_code, job_theme, validated, invoked, appended,
                   passed_routes>>
    /\ UNCHANGED <<vvars, evars, concurrent, pvars, nvars>>

\* _process_single_task: answer_request, or no branch taken
NoExecution ==
    /\ cpc = "dispatch"
    /\ \/ task_type = "answer_request"
       \/ task_type \in {"screenshot_request", "code_execution"} /\ IsEmpty(user_code)
    /\ IF task_type = "answer_request"
       THEN task_status' = "completed" /\ cpc' = "task_commit" /\ UNCHANGED job_status
       ELSE job_status' = "completed" /\ cpc' = "job_commit" /\ UNCHANGED task_status
    /\ UNCHANGED <<request, user_code, job_theme, message, validated, invoked, appended,
                   propagated>>
    /\ UNCHANGED stored
    /\ UNCHANGED <<vvars, evars, concurrent, pvars, nvars>>

\* the db.commit() that follows the assignment of the task's final status;
\* when it returns, _process_job leaves its loop: job.status = "completed";
\* when it raises, the except clauses of _process_single_task and
\* _process_job run
CommitTask ==
    /\ cpc = "task_commit"
    /\ \/ /\ job_status' = "completed"
          /\ cpc' = "job_commit"
          /\ UNCHANGED <<task_status, propagated>>
       \/ TaskRaise
    /\ UNCHANGED <<request, user_code, job_theme, message, validated, invoked, appended>>
    /\ UNCHANGED stored
    /\ UNCHANGED <<vvars, evars, concurrent, pvars, nvars>>

\* _process_job: the db.commit() after job.status = "completed"; when it
\* raises: except Exception as e: job.status = "failed"; db.commit(); raise e
CommitJob ==
    /\ cpc = "job_commit"
    /\ \/ UNCHANGED <<job_status, propagated>>
       \/ job_status' = "failed" /\ propagated' = TRUE
    /\ cpc' = "done"
    /\ UNCHANGED <<request, user_code, job_theme, task_status, message, validated, invoked,
                   appended>>
    /\ UNCHANGED stored
    /\ UNCHANGED <<vvars, evars, concurrent, pvars, nvars>>

\* run_tasks up to `await executor_service.execute_code(code_snippet, language)`
RunTasks ==
    /\ cpc = "start"
    /\ path = "run"
    /\ IF IsBlankSource(user_code)
       THEN /\ cpc' = "done"
            /\ UNCHANGED <<job_status, message, validated, invoked>>
       ELSE LET lang == LanguageOfTheme(theme)
                verdict == ValidateCode(user_code, "python")
            IN  IF lang = "python"
                THEN /\ validated' = Validated(verdict)
                     /\ IF ~verdict.allowed
                        THEN /\ job_status' = "failed"
                             /\ message' = ValidationFailed(verdict.reason)
                             /\ cpc' = "done"
                             /\ UNCHANGED invoked
                        ELSE /\ job_status' = "running"
                             /\ invoked' = Invoked("execute_code", lang)
                             /\ cpc' = "executing"
                             /\ UNCHANGED message
                ELSE /\ job_status' = "running"
                     /\ invoked' = Invoked("execute_code", lang)
                     /\ cpc' = "executing"
                     /\ UNCHANGED <<validated, message>>
    /\ UNCHANGED <<request, user_code, job_theme, task_status, appended, propagated>>
    /\ UNCHANGED stored
    /\ UNCHANGED <<vvars, evars, concurrent, pvars, nvars>>

\* run_tasks after execute_code returned
RunTasksReturns ==
    /\ cpc = "executing"
    /\ path = "run"
    /\ \E r \in ExecutorResults :
         /\ returned' = r
         /\ \/ /\ job_status' = IF r.success THEN "completed" ELSE "failed"
               /\ message' = IF r.success THEN message ELSE r.logs
            \/ \* screenshot_service.generate_screenshot or os.path.getsize raises
               /\ r.success
               /\ job_status' = "failed"
               /\ message' = "Execution error: [Errno 2] No such file or directory"
    /\ UNCHANGED <<task_stdout, task_exit_code, passed_routes>>
    /\ appended' = TRUE
    /\ cpc' = "done"
    /\ UNCHANGED <<request, user_code, job_theme, task_status, validated, invoked,
                   propagated>>
    /\ UNCHANGED <<vvars, evars, concurrent, pvars, nvars>>

CoordStep ==
    \/ SubmitTasks
    \/ ProcessJob
    \/ CodeGenerated
    \/ ExecuteCodeTask
    \/ ExecuteCodeTaskReturns
    \/ ExecuteReactProjectTask
    \/ ExecuteReactProjectTaskReturns
    \/ NoExecution
    \/ CommitTask
    \/ CommitJob
    \/ RunTasks
    \/ RunTasksReturns

(***************************************************************************)
(* Two calls of execute_code for python, c or java in flight on the same   *)
(* event loop.  A call gives way to the other at its awaits: after the     *)
(* source is written and the compiler spawned, after the compiler has      *)
(* ended and the program is spawned, and after the program has ended.  The *)
(* files live in tempfile.gettempdir(), which the calls share.             *)
(***************************************************************************)
Invocations == {"first", "second"}

\* no call: the value of a path that does not exist, of a call that ran
\* nothing
Nobody == "nobody"

\* str.lstrip(), str.rstrip(), str.strip()
RECURSIVE LStrip(_)
LStrip(t) == IF t # "" /\ IsSpace(Head(t)) THEN LStrip(Tail(t)) ELSE t

RECURSIVE RStrip(_)
RStrip(t) ==
    IF t # "" /\ IsSpace(CharAt(t, Len(t))) THEN RStrip(SubSeq(t, 1, Len(t) - 1)) ELSE t

Strip(t) == RStrip(LStrip(t))

\* s.startswith(prefix)
StartsWith(t, prefix) == Len(t) >= Len(prefix) /\ SubSeq(t, 1, Len(prefix)) = prefix

\* s.split(sep) for a separator of one character
RECURSIVE SplitOn(_, _)
SplitOn(t, sep) ==
    IF ~Contains(t, sep) THEN <<t>>
    ELSE LET k == CHOOSE i \in 1..Len(t) :
                    CharAt(t, i) = sep /\ \A j \in 1..(i - 1) : CharAt(t, j) # sep
         IN  <<SubSeq(t, 1, k - 1)>> \o SplitOn(SubSeq(t, k + 1, Len(t)), sep)

\* s.split(): the runs of characters that are not white space
RECURSIVE Tokens(_)
Tokens(t) ==
    LET u == LStrip(t)
    IN  IF u = "" THEN <<>>
        ELSE LET n == CHOOSE i \in 1..Len(u) :
                        /\ \A j \in 1..i : ~IsSpace(CharAt(u, j))
                        /\ i = Len(u) \/ IsSpace(CharAt(u, i + 1))
             IN  <<SubSeq(u, 1, n)>> \o Tokens(SubSeq(u, n + 1, Len(u)))

\* for line in code.split('\n'): line = line.strip(); ...
RECURSIVE ScanLines(_)
ScanLines(lines) ==
    IF lines = <<>> THEN "Main"
    ELSE LET line == Strip(Head(lines))
             parts == Tokens(line)
         IN  IF StartsWith(line, "public class") /\ Contains(line, "{")
             THEN IF Len(parts) >= 3
                  THEN Strip(Head(SplitOn(parts[3], "{")))
                  ELSE ScanLines(Tail(lines))
             ELSE IF StartsWith(line, "class") /\ Contains(line, "{")
             THEN IF Len(parts) >= 2
                  THEN Strip(Head(SplitOn(parts[2], "{")))
                  ELSE ScanLines(Tail(lines))
             ELSE ScanLines(Tail(lines))

\* class_name = "Main"; for line in code.split('\n'): ... class_name = parts[2]...
ClassName(code) == ScanLines(SplitOn(code, "\n"))

\* the code of a call that is not Java
NoCode == ""

\* the Java sources of the calls
JavaSources ==
    { "public class Main {\n}",
      "public class Hello {\n}",
      "import java.util.*;\n\n    public class Hello{\n}",
      "class Hello extends Object {\n}",
      "public class Hello\n{\n}",
      "public final class Hello {\n}",
      "public class Box<T> {\n}" }

\* the name tempfile.NamedTemporaryFile makes up: mkstemp opens with O_EXCL,
\* no two calls get the same
UniqueName(i) == IF i = "first" THEN "tmpk3v9x1" ELSE "tmpq7c2m8"

\* temp_file / temp_c_file / temp_java_file
SourceFile(i) ==
    CASE rlanguage[i] = "java" -> ClassName(rcode[i]) \o ".java"
      [] rlanguage[i] = "c"    -> UniqueName(i) \o ".c"
      [] OTHER                 -> UniqueName(i) \o ".py"

\* executable_file = temp_c_file.replace('.c', '');
\* class_file = temp_java_file.replace('.java', '.class')
CompiledFile(i) ==
    CASE rlanguage[i] = "java" -> ClassName(rcode[i]) \o ".class"
      [] OTHER                 -> UniqueName(i)

\* what python3 / the shell / java -cp tmpdir class_name loads
ExecutedFile(i) == IF rlanguage[i] = "python" THEN SourceFile(i) ELSE CompiledFile(i)

TempPaths ==
    {ClassName(c) \o ".java" : c \in JavaSources}
        \cup {ClassName(c) \o ".class" : c \in JavaSources}
        \cup {UniqueName(i) \o s : i \in Invocations, s \in {".py", ".c", ""}}

ConcurrentStart ==
    /\ rpc = [i \in Invocations |-> "start"]
    /\ rlanguage \in [Invocations -> {"python", "c", "java"}]
    /\ rcode \in [Invocations -> JavaSources \cup {NoCode}]
    /\ \A i \in Invocations : rlanguage[i] = "java" <=> rcode[i] \in JavaSources
    /\ tempdir = [p \in TempPaths |-> Nobody]
    /\ executed = [i \in Invocations |-> Nobody]

ConcurrentIdle ==
    /\ rpc = [i \in Invocations |-> "idle"]
    /\ rlanguage = [i \in Invocations |-> "python"]
    /\ rcode = [i \in Invocations |-> NoCode]
    /\ tempdir = [p \in TempPaths |-> Nobody]
    /\ executed = [i \in Invocations |-> Nobody]

\* f.write(code); compile_process / process = await create_subprocess_exec(...)
WriteAndSpawn(i) ==
    /\ rpc[i] = "start"
    /\ tempdir' = [tempdir EXCEPT ![SourceFile(i)] = i]
    /\ rpc' = [rpc EXCEPT ![i] = IF rlanguage[i] = "python" THEN "run" ELSE "compile"]
    /\ UNCHANGED <<rlanguage, rcode, executed>>
    /\ UNCHANGED <<vvars, evars, cvars, pvars, nvars>>

\* gcc temp_c_file -o executable_file / javac temp_java_file runs on what the
\* path holds by then; await compile_process.communicate();
\* if compile_process.returncode != 0: return ... (through finally)
CompileAndSpawn(i) ==
    /\ rpc[i] = "compile"
    /\ IF tempdir[SourceFile(i)] = Nobody
       THEN /\ rpc' = [rpc EXCEPT ![i] = "finally"]
            /\ UNCHANGED tempdir
       ELSE /\ tempdir' = [tempdir EXCEPT ![CompiledFile(i)] = tempdir[SourceFile(i)]]
            /\ rpc' = [rpc EXCEPT ![i] = "run"]
    /\ UNCHANGED <<rlanguage, rcode, executed>>
    /\ UNCHANGED <<vvars, evars, cvars, pvars, nvars>>

\* python3 temp_file / executable_file / java -cp tmpdir class_name runs what
\* the path holds by then; await asyncio.wait_for(process.communicate(), 30)
RunProgram(i) ==
    /\ rpc[i] = "run"
    /\ executed' = [executed EXCEPT ![i] = tempdir[ExecutedFile(i)]]
    /\ rpc' = [rpc EXCEPT ![i] = "finally"]
    /\ UNCHANGED <<rlanguage, rcode, tempdir>>
    /\ UNCHANGED <<vvars, evars, cvars, pvars, nvars>>

\* finally: if os.path.exists(temp_file): os.unlink(temp_file); the same for
\* executable_file / class_file
UnlinkFiles(i) ==
    /\ rpc[i] = "finally"
    /\ tempdir' = [p \in TempPaths |->
                     IF p \in {SourceFile(i), CompiledFile(i)} THEN Nobody ELSE tempdir[p]]
    /\ rpc' = [rpc EXCEPT ![i] = "done"]
    /\ UNCHANGED <<rlanguage, rcode, executed>>
    /\ UNCHANGED <<vvars, evars, cvars, pvars, nvars>>

(***************************************************************************)
(* _create_react_project_structure(temp_dir, project_files, port): the     *)
(* entries it opens for writing, by path, and the two imports of the main.jsx *)
(* it generates.                                                           *)
(***************************************************************************)
\* s.endswith(suffix)
EndsWith(t, suffix) ==
    Len(t) >= Len(suffix) /\ SubSeq(t, Len(t) - Len(suffix) + 1, Len(t)) = suffix

\* s.replace(old, "")
RECURSIVE RemoveAll(_, _)
RemoveAll(t, old) ==
    IF t = "" THEN ""
    ELSE IF StartsWith(t, old) THEN RemoveAll(SubSeq(t, Len(old) + 1, Len(t)), old)
    ELSE Head(t) \o RemoveAll(Tail(t), old)

\* s.rfind(c) + 1 for one character
LastIndex(t, c) ==
    IF Contains(t, c)
    THEN CHOOSE i \in 1..Len(t) :
            CharAt(t, i) = c /\ \A j \in (i + 1)..Len(t) : CharAt(t, j) # c
    ELSE 0

\* os.path.splitext(p)[0]: the extension starts at the last dot of the last
\* component, unless only dots come before it there
SplitExtBase(p) ==
    LET sep == LastIndex(p, "/")
        dot == LastIndex(p, ".")
    IN  IF dot > sep /\ \E k \in (sep + 1)..(dot - 1) : CharAt(p, k) # "."
        THEN SubSeq(p, 1, dot - 1)
        ELSE p

\* os.path.join(a, b) on posix: an absolute b replaces a
PathJoin(a, b) ==
    IF StartsWith(b, "/") THEN b
    ELSE IF a = "" \/ EndsWith(a, "/") THEN a \o b
    ELSE a \o "/" \o b

\* the components of os.path.normpath(p) for an absolute p
RECURSIVE Resolve(_, _)
Resolve(parts, done) ==
    IF parts = <<>> THEN done
    ELSE IF Head(parts) \in {"", "."} THEN Resolve(Tail(parts), done)
    ELSE IF Head(parts) = ".."
         THEN Resolve(Tail(parts),
                      IF done = <<>> THEN done ELSE SubSeq(done, 1, Len(done) - 1))
    ELSE Resolve(Tail(parts), Append(done, Head(parts)))

NormPath(p) == Resolve(SplitOn(p, "/"), <<>>)

\* the file p names lies in the directory dir or below it
IsUnder(p, dir) ==
    LET f == NormPath(p)
        d == NormPath(dir)
    IN  Len(f) > Len(d) /\ SubSeq(f, 1, Len(d)) = d

WordChars == UpperLetters \o LowerLetters \o "0123456789_"

\* \b between positions i - 1 and i of t
WordBoundary(t, i) ==
    LET before == i > 1 /\ i - 1 <= Len(t) /\ Contains(WordChars, CharAt(t, i - 1))
        after  == i >= 1 /\ i <= Len(t) /\ Contains(WordChars, CharAt(t, i))
    IN  before # after

\* re.search(r'\bimport\s+React\b', content)
ImportsReact(content) ==
    \E i \in 1..Len(content), j \in 1..Len(content) :
        /\ i + 5 <= Len(content)
        /\ SubSeq(content, i, i + 5) = "import"
        /\ WordBoundary(content, i)
        /\ j > i + 6
        /\ \A k \in (i + 6)..(j - 1) : IsSpace(CharAt(content, k))
        /\ j + 4 <= Len(content)
        /\ SubSeq(content, j, j + 4) = "React"
        /\ WordBoundary(content, j + 5)

\* re.search(r'<[A-Za-z]', content)
HasTag(content) ==
    \E i \in 1..(Len(content) - 1) :
        /\ CharAt(content, i) = "<"
        /\ Contains(UpperLetters \o LowerLetters, CharAt(content, i + 1))

ContainsJsx(content) == ImportsReact(content) \/ HasTag(content)

\* normalized = filepath.replace("src/", "").replace("src\\", "")
NormalizedName(filepath) == RemoveAll(RemoveAll(filepath, "src/"), "src\\")

\* the name a supplied file is written under, relative to src_dir
WrittenName(filepath, content) ==
    LET normalized == NormalizedName(filepath)
    IN  IF normalized = "App.js" \/ ContainsJsx(content)
        THEN SplitExtBase(normalized) \o ".jsx"
        ELSE normalized

temp_dir == "/app/react_temp/react_spa_1a2b3c4d"

src_dir == PathJoin(temp_dir, "src")

\* package.json, vite.config.js, index.html
ScaffoldFiles ==
    {PathJoin(temp_dir, f) : f \in {"package.json", "vite.config.js", "index.html"}}

\* for filepath, content in project_files.items(): ... open(full_path, "w")
UserFiles(entries) ==
    {PathJoin(src_dir, WrittenName(entries[i][1], entries[i][2])) : i \in 1..Len(entries)}

\* the second loop over project_files: app_filename
RECURSIVE AppFilename(_, _)
AppFilename(entries, name) ==
    IF entries = <<>> THEN name
    ELSE AppFilename(Tail(entries),
                     IF NormalizedName(Head(entries)[1]) = "App.js"
                     THEN (IF ContainsJsx(Head(entries)[2]) THEN "App.jsx" ELSE "App.js")
                     ELSE name)

\* the second loop over project_files: css_filename
RECURSIVE CssFilename(_, _)
CssFilename(entries, name) ==
    IF entries = <<>> THEN name
    ELSE CssFilename(Tail(entries),
                     IF EndsWith(NormalizedName(Head(entries)[1]), ".css")
                     THEN NormalizedName(Head(entries)[1])
                     ELSE name)

JsxApp == "import React from 'react'\nexport default () => <h1>Hi</h1>"

PlainApp == "export default function App() { return null }"

PlainCss == "h1 { color: red }"

MarkupCss == "/* <h1> */ h1 { color: red }"

\* what a caller may supply: a path and the file's content
SuppliedFiles ==
    { <<"App.js", JsxApp>>, <<"App.js", PlainApp>>, <<"src/App.js", PlainApp>>,
      <<"App.jsx", JsxApp>>, <<"components/Home.js", JsxApp>>,
      <<"App.css", PlainCss>>, <<"App.css", MarkupCss>>, <<"styles/main.css", PlainCss>>,
      <<"../../../cron.d/job.js", PlainApp>>, <<"/etc/cron.d/job", PlainApp>> }

MaxFiles == 2

\* project_files: a dict, one entry per path
ProjectFiles ==
    {fs \in UNION {[1..n -> SuppliedFiles] : n \in 1..MaxFiles} :
        \A i, j \in 1..Len(fs) : i # j => fs[i][1] # fs[j][1]}

NoImports == [app |-> "", css |-> ""]

ProjectStart ==
    /\ ppc = "start"
    /\ supplied \in ProjectFiles
    /\ wrote = {}
    /\ main_imports = NoImports

ProjectIdle ==
    /\ ppc = "idle"
    /\ supplied = <<>>
    /\ wrote = {}
    /\ main_imports = NoImports

\* os.makedirs(components_dir); package.json, vite.config.js, index.html
WriteScaffold ==
    /\ ppc = "start"
    /\ wrote' = wrote \cup ScaffoldFiles
    /\ ppc' = "files"
    /\ UNCHANGED <<supplied, main_imports>>
    /\ UNCHANGED <<vvars, evars, cvars, concurrent, nvars>>

\* "Write all user-provided files"
WriteUserFiles ==
    /\ ppc = "files"
    /\ wrote' = wrote \cup UserFiles(supplied)
    /\ ppc' = "main"
    /\ UNCHANGED <<supplied, main_imports>>
    /\ UNCHANGED <<vvars, evars, cvars, concurrent, nvars>>

\* components/FileExplorer.js; main.jsx with
\* import App from './{app_filename}' and import './{css_filename}'
WriteMainJsx ==
    /\ ppc = "main"
    /\ main_imports' = [app |-> AppFilename(supplied, "App.jsx"),
                        css |-> CssFilename(supplied, "App.css")]
    /\ wrote' = wrote \cup {PathJoin(src_dir, "components/FileExplorer.js"),
                                PathJoin(src_dir, "main.jsx")}
    /\ ppc' = "done"
    /\ UNCHANGED supplied
    /\ UNCHANGED <<vvars, evars, cvars, concurrent, nvars>>

(***************************************************************************)
(* Two calls of _execute_node_code in flight on the same event loop.  A    *)
(* call gives way to the other at its awaits: the five seconds slept after *)
(* `docker run` is spawned, the GET, and the two `docker stop`.  The calls *)
(* share the host's ports.                                                 *)
(***************************************************************************)
\* the host port of '-p', '3000:3000' and of the GET
HostPort(i) == 3000

HostPorts == {HostPort(i) : i \in Invocations}

\* the server.js texts the calls are made with
NodeSources ==
    { "require('express')().get('/', (q, s) => s.send('alpha')).listen(3000)",
      "require('express')().get('/', (q, s) => s.send('beta')).listen(3000)",
      "require('http').createServer((q, s) => s.end('gamma')).listen(3000)" }

NodeStart ==
    /\ npc = [i \in Invocations |-> "start"]
    /\ ncode \in [Invocations -> NodeSources]
    /\ published = [p \in HostPorts |-> Nobody]
    /\ answered = [i \in Invocations |-> Nobody]

NodeIdle ==
    /\ npc = [i \in Invocations |-> "idle"]
    /\ ncode = [i \in Invocations |-> NoCode]
    /\ published = [p \in HostPorts |-> Nobody]
    /\ answered = [i \in Invocations |-> Nobody]

\* mkdtemp, package.json, server.js; create_subprocess_exec('docker', 'run',
\* '--rm', '--name', container_name, '-p', '3000:3000', ...): the container
\* gets the host port if no container holds it, and else does not start
\* (the exit of `docker run` is not looked at); await asyncio.sleep(5)
DockerRunNode(i) ==
    /\ npc[i] = "start"
    /\ published' = [published EXCEPT ![HostPort(i)] = IF @ = Nobody THEN i ELSE @]
    /\ npc' = [npc EXCEPT ![i] = "sleep"]
    /\ UNCHANGED <<ncode, answered>>
    /\ UNCHANGED <<vvars, evars, cvars, concurrent, pvars>>

\* session.get("http://host.docker.internal:3000"): the response of the
\* server behind the host port, or a failure to connect (no container holds
\* the port, or its server does not listen yet), which is caught
GetNode(i) ==
    /\ npc[i] = "sleep"
    /\ \/ /\ published[HostPort(i)] # Nobody
          /\ answered' = [answered EXCEPT ![i] = published[HostPort(i)]]
       \/ UNCHANGED answered
    /\ npc' = [npc EXCEPT ![i] = "stop"]
    /\ UNCHANGED <<ncode, published>>
    /\ UNCHANGED <<vvars, evars, cvars, concurrent, pvars>>

\* docker stop container_name (a name no two calls share): ends the call's
\* own container, which gives the host port back if it held it; a failure
\* is passed over
DockerStopNode(i) ==
    /\ npc[i] = "stop"
    /\ \/ published' = [p \in HostPorts |->
                          IF published[p] = i THEN Nobody ELSE published[p]]
       \/ UNCHANGED published
    /\ npc' = [npc EXCEPT ![i] = "finally"]
    /\ UNCHANGED <<ncode, answered>>
    /\ UNCHANGED <<vvars, evars, cvars, concurrent, pvars>>

\* return True, output_html, logs, 0; finally: docker stop container_name
\* waited for 5 seconds, shutil.rmtree(temp_dir)
FinallyNode(i) ==
    /\ npc[i] = "finally"
    /\ \/ published' = [p \in HostPorts |->
                          IF published[p] = i THEN Nobody ELSE published[p]]
       \/ UNCHANGED published
    /\ npc' = [npc EXCEPT ![i] = "done"]
    /\ UNCHANGED <<ncode, answered>>
    /\ UNCHANGED <<vvars, evars, cvars, concurrent, pvars>>

(***************************************************************************)
(* Specifications.                                                         *)
(***************************************************************************)
\* validate_code on every source of the vocabulary
ValidatorInit == ValidatorStart /\ ExecIdle /\ CoordIdle /\ ConcurrentIdle /\ ProjectIdle /\ NodeIdle

ValidatorNext == Validate

ValidatorSpec == ValidatorInit /\ [][ValidatorNext]_vars

\* one call of the executor, its children and containers
ExecInit == ExecStart /\ ValidatorIdle /\ CoordIdle /\ ConcurrentIdle /\ ProjectIdle /\ NodeIdle

ExecNext == RunnerStep \/ RunnerEnvironment \/ WebStep \/ WebEnvironment

ExecSpec == ExecInit /\ [][ExecNext]_vars

\* what the event loop, its timers and the kernel guarantee: a coroutine that
\* can go on does, the timeout fires, SIGKILL takes effect.  Nothing is
\* assumed of what children, their descendants and containers do.
ExecProgress ==
    \/ WriteSource
    \/ SpawnCompile
    \/ CompileReturns
    \/ SpawnRun
    \/ CommunicateReturns
    \/ TimeoutFires
    \/ (WaitReturns /\ TransportFinished)
    \/ WebStep

FairExecSpec == ExecSpec /\ WF_vars(ExecProgress) /\ WF_vars(KilledChildDies)

\* one request on either path
CoordInit == CoordStart /\ ValidatorIdle /\ ExecIdle /\ ConcurrentIdle /\ ProjectIdle /\ NodeIdle

CoordNext == CoordStep

CoordSpec == CoordInit /\ [][CoordNext]_vars

\* two calls of the Runner at once
ConcurrentInit == ConcurrentStart /\ ValidatorIdle /\ ExecIdle /\ CoordIdle /\ ProjectIdle /\ NodeIdle

ConcurrentNext ==
    \E i \in Invocations :
        \/ WriteAndSpawn(i)
        \/ CompileAndSpawn(i)
        \/ RunProgram(i)
        \/ UnlinkFiles(i)

ConcurrentSpec == ConcurrentInit /\ [][ConcurrentNext]_vars

\* one call of _create_react_project_structure
ProjectInit == ProjectStart /\ ValidatorIdle /\ ExecIdle /\ CoordIdle /\ ConcurrentIdle /\ NodeIdle

ProjectNext == WriteScaffold \/ WriteUserFiles \/ WriteMainJsx

ProjectSpec == ProjectInit /\ [][ProjectNext]_vars

\* two calls of _execute_node_code at once
NodeInit == NodeStart /\ ValidatorIdle /\ ExecIdle /\ CoordIdle /\ ConcurrentIdle /\ ProjectIdle

NodeNext ==
    \E i \in Invocations :
        \/ DockerRunNode(i)
        \/ GetNode(i)
        \/ DockerStopNode(i)
        \/ FinallyNode(i)

NodeSpec == NodeInit /\ [][NodeNext]_vars

(***************************************************************************)
(* Properties.                                                             *)
(***************************************************************************)
\* C1 (FairExecSpec): once the 30-second timeout has fired on a child that
\* had not exited, the call returns success=false, empty stdout and
\* exit_code=124.
TimeoutLeadsToTimeoutResult ==
    (timed_out = "running") ~> (epc = "returned" /\ result = TimeoutResult)

\* C2 (ExecSpec): wherever the Runner awaits a child process, a step of the
\* Runner itself (the timeout at least) can end the wait.
EveryWaitHasATimeout ==
    (IsRunner /\ epc \in {"compile_wait", "run_wait"}) => ENABLED RunnerStep

\* C3 (ExecSpec): after a Runner call that ended by timeout has returned,
\* neither the child nor any descendant of it is running.
NothingRunsAfterTimeout ==
    (epc = "returned" /\ timed_out # "no" /\ result.exit_code = TIMEOUT_EXIT_CODE)
        => (run_process.state = "exited" /\ piped = 0 /\ detached = 0)

SuccessIffExitCodeZero ==
    (entry = "execute_code" /\ epc = "returned")
        => (result.success <=> result.exit_code = 0)

TimeoutReturned ==
    /\ entry = "execute_code"
    /\ epc = "returned"
    /\ timed_out = "running"
    /\ ~result.success
    /\ result.exit_code = TIMEOUT_EXIT_CODE

\* the constructs the deny sets name, read off the parsed source
Nodes(src) == LET w == Walk(Parse(src)) IN {w[i] : i \in 1..Len(w)}

ImportsDenyModule(src) ==
    \E n \in Nodes(src) :
        \/ /\ n.type = "Import"
           /\ \E i \in 1..Len(n.names) : FirstSegment(n.names[i].name) \in blocked_imports
        \/ /\ n.type = "ImportFrom"
           /\ n.module # ""
           /\ FirstSegment(n.module) \in blocked_imports

ImportsDenyName(src) ==
    \E n \in Nodes(src) :
        /\ n.type = "ImportFrom"
        /\ \E i \in 1..Len(n.names) : n.names[i].name \in blocked_imports

CallsDenyBuiltin(src) ==
    \E n \in Nodes(src) :
        n.type = "Call" /\ n.func.type = "Name" /\ n.func.id \in blocked_functions

AccessesDenyAttribute(src) ==
    \E n \in Nodes(src) : n.type = "Attribute" /\ n.attr \in blocked_attributes

CleanSourceAllowed ==
    (/\ vpc = "done"
     /\ vlanguage = "python"
     /\ CodeLen(vcode) <= MAX_CODE_LENGTH
     /\ ParseOk(vcode)
     /\ ~ImportsDenyModule(vcode)
     /\ ~ImportsDenyName(vcode)
     /\ ~CallsDenyBuiltin(vcode)
     /\ ~AccessesDenyAttribute(vcode))
        => vverdict.allowed

NeverRaisesOuterHandlerFails ==
    (entry \in {"execute_code", "execute_react_project"})
        => /\ epc # "raised"
           /\ ~exc.escaped
           /\ (epc = "returned" /\ exc.outer)
                => (~result.success /\ result.exit_code = 1 /\ result.logs # "")

ReactLaunchFailureReturned ==
    /\ epc = "returned"
    /\ Method = "execute_react_project"
    /\ helper.returncode = 1
    /\ exc.outer
    /\ result.exit_code = 1

\* C10 (ExecSpec), as stated: an exception raised in any stage gives
\* success=false, exit_code=1 and a non-empty message.
EveryExceptionFails ==
    (entry \in {"execute_code", "execute_react_project"})
        => /\ epc # "raised"
           /\ (epc = "returned" /\ (exc.outer \/ exc.local))
                => (~result.success /\ result.exit_code = 1 /\ result.logs # "")

\* C11 (CoordSpec): a react_project task that has project files ends with the
\* executor's logs and exit code stored on it and with status completed
\* exactly when the executor reported success; nothing else fails it.
ReactProjectTaskFollowsExecutor ==
    (cpc = "done" /\ invoked.method = "execute_react_project")
        => /\ ~propagated
           /\ task_stdout = <<returned.logs>>
           /\ task_exit_code = <<returned.exit_code>>
           /\ task_status = "completed" <=> returned.success

\* C12 (ExecSpec): once execute_react_project has returned, with every
\* removal of the cleanup done without an error, the container of the call
\* no longer exists, running or stopped, and neither does its working
\* directory.
NoContainerNoDirectoryAfterProject ==
    (Method = "execute_react_project" /\ epc = "returned" /\ ~exc.local)
        => (container \in {"none", "removed"} /\ "temp_dir" \notin files)

\* C13 (ExecSpec): when the container stayed up and the readiness check did
\* not pass in any of the attempts, execute_react_project returns
\* success=false, no per-route markup and a message that holds the logs it
\* fetched from the container.
ReadinessTimeoutCarriesLogs ==
    (Method = "execute_react_project" /\ epc = "returned" /\ attempt = MaxAttempts
       /\ ~exc.local)
        => /\ ~result.success
           /\ ReturnedScreenshots = <<>>
           /\ container_logs # ""
           /\ Contains(result.logs, container_logs)

\* C14 (ExecSpec): the poll attempt whose liveness check finds the container
\* not running is the last one: the call returns in that step, without
\* another attempt, with success=false and a message that holds the logs
\* fetched from the container.
CrashStopsPolling ==
    [][(epc = "react_poll" /\ attempt < MaxAttempts /\ container # "running"
          /\ (attempt' # attempt \/ epc' # epc))
          => /\ epc' = "returned"
             /\ attempt' = attempt
             /\ ~result'.success
             /\ container_logs' \in LogsFetched
             /\ Contains(result'.logs, container_logs')]_vars

CaptureErrorIsolated ==
    /\ []((Method = "execute_react_project" /\ epc = "returned" /\ result.success)
             => route_index = Len(CaptureRoutes))
    /\ [][(epc = "react_routes" /\ route_index' = route_index + 1)
             => LET route == CaptureRoutes[route_index']
                IN  /\ epc' = "react_routes"
                    /\ route \in DOMAIN screenshots'
                    /\ \A r \in DOMAIN screenshots \ {route} :
                         r \in DOMAIN screenshots' /\ screenshots'[r] = screenshots[r]]_vars

SecondRouteFailedFirstKept ==
    /\ Method = "execute_react_project"
    /\ epc = "returned"
    /\ result.success
    /\ routes = <<"/", "/about">>
    /\ DOMAIN ReturnedScreenshots = {"/", "/about"}
    /\ ReturnedScreenshots["/"] = Markup("/")
    /\ ReturnedScreenshots["/about"]
          = "Error capturing route: Page.evaluate: Execution context was destroyed"

PortCollisionRetried ==
    (Method = "execute_react_project" /\ epc = "returned" /\ helper.stderr = PortAllocated)
        => result.success

\* C18 (ExecSpec): after a Runner invocation has returned, with every
\* removal of its finally block done without an error, none of the files it
\* created is left: no source file, no executable, no class file.
NoRunnerFileRemains ==
    (IsRunner /\ epc = "returned" /\ ~exc.local) => (files = {})

\* C19 (ConcurrentSpec): of two calls in flight at once, each finds its own
\* source under its path from the write to the removal, its own compiled
\* file under its path while it runs, and runs its own code.
ConcurrentRunsIsolated ==
    \A i \in Invocations :
        /\ executed[i] \in {Nobody, i}
        /\ rpc[i] \in {"compile", "run"} => tempdir[SourceFile(i)] = i
        /\ rpc[i] = "run" => tempdir[ExecutedFile(i)] = i

\* C21 (CoordSpec): when a request has ended with its job or its task in
\* status failed, the message the caller reads (job.error_message on /run,
\* task.caption on the task path) is a non-empty string.
FailedCarriesMessage ==
    (cpc = "done" /\ (job_status = "failed" \/ task_status = "failed"))
        => message # ""

\* C22 (CoordSpec): a react_project task without routes has the executor
\* capture the single route "/".
NoRoutesCapturesRoot ==
    (invoked.method = "execute_react_project" /\ task_routes = <<>>)
        => RoutesOrRoot(passed_routes) = <<"/">>

\* C23 (ValidatorSpec): for every language tag validate_code answers with
\* the size reason exactly for the sources longer than MAX_CODE_LENGTH,
\* whatever else is wrong with them: a source of the limit's length is not
\* rejected for size, a longer one is rejected with that non-empty reason.
TooLong == Rejected("Code too long. Maximum 5000 characters allowed.")

SizeLimitExact ==
    (vpc = "done")
        => /\ (vverdict = TooLong) <=> (CodeLen(vcode) > MAX_CODE_LENGTH)
           /\ TooLong.reason # ""

OverLimitImportRejectedForSize ==
    /\ vpc = "done"
    /\ vlanguage = "java"
    /\ CodeLen(vcode) = MAX_CODE_LENGTH + 1
    /\ ~ValidatePythonCode(vcode).allowed
    /\ vverdict = TooLong

\* C24 (ValidatorSpec): for the web tag validate_code rejects exactly the
\* sources that are longer than the limit, empty or white space only, or
\* matched by one of the patterns of extremely_dangerous_patterns; every
\* other source is allowed.
WebRejectsSizeBlankOrPattern ==
    (vpc = "done" /\ vlanguage = "webdev")
        => (~vverdict.allowed
              <=> \/ CodeLen(vcode) > MAX_CODE_LENGTH
                  \/ IsBlank(SourceText(vcode))
                  \/ AnyMatch(extremely_dangerous_patterns, SourceText(vcode)))

BlankWebSourceRejected ==
    /\ vpc = "done"
    /\ vlanguage = "webdev"
    /\ CodeLen(vcode) <= MAX_CODE_LENGTH
    /\ vverdict = Rejected("Empty code")

\* C24 as stated: the web tag rejects only for a pattern or for size
WebRejectsOnlySizeOrPattern ==
    (vpc = "done" /\ vlanguage = "webdev" /\ ~vverdict.allowed)
        => \/ CodeLen(vcode) > MAX_CODE_LENGTH
           \/ AnyMatch(extremely_dangerous_patterns, SourceText(vcode))

\* C25 (ExecSpec): a call of execute_react_project has run its cleanup not
\* at all while it is at one of its stages and exactly once when it has
\* returned, whichever stage it left from.
CleanupExactlyOnce ==
    (Method = "execute_react_project")
        => cleanups = (IF epc \in {"returned", "raised"} THEN 1 ELSE 0)

ReadinessTimeoutCleanedUp ==
    /\ Method = "execute_react_project"
    /\ epc = "returned"
    /\ attempt = MaxAttempts
    /\ result.logs = "React project execution failed: React dev server failed to start after 120 seconds"
    /\ cleanups = 1

\* C26 (ExecSpec): readiness polling makes at most MaxAttempts attempts; it
\* ends as ready only in an attempt that found the container running and
\* got a 200 answer whose text holds one of the markers; with the attempts
\* used up it probes no more and the call fails.
PollingBoundedAndExact ==
    /\ [](attempt \in 0..MaxAttempts)
    /\ [][(epc = "react_poll" /\ epc' = "react_capture")
             => /\ container = "running"
                /\ attempt < MaxAttempts
                /\ probe'.status = 200
                /\ \/ Contains(probe'.text, "<div id=\"root\"")
                   \/ Contains(probe'.text, "vite/client")]_vars
    /\ [][(epc = "react_poll" /\ attempt = MaxAttempts /\ epc' # epc)
             => /\ epc' = "returned"
                /\ probe' = probe
                /\ attempt' = attempt
                /\ ~result'.success]_vars

ReadyAtLastAttempt ==
    /\ Method = "execute_react_project"
    /\ epc = "react_capture"
    /\ attempt = MaxAttempts - 1
    /\ exc.local
    /\ probe = [status |-> 200,
                text |-> "<script type=\"module\" src=\"/@vite/client\"></script>"]

\* C27 (ExecSpec): find_free_port binds at most MAX_PORT_ATTEMPTS times; a
\* port it returns lies in PORT_MIN..PORT_MAX and was bound on the attempt
\* that returned; when every attempt failed the call returns a failure with
\* the project not materialized and no container launched.
PortAllocationBounded ==
    /\ [](/\ allocation.binds \in 0..MAX_PORT_ATTEMPTS
          /\ (port # "none") => /\ allocation.binds >= 1
                                /\ allocation.number \in PORT_MIN..PORT_MAX)
    /\ [][(epc = "react_setup" /\ epc' # epc)
             => \/ /\ epc' = "react_materialize"
                   /\ port' = "free"
                   /\ allocation'.number \in PORT_MIN..PORT_MAX
                \/ /\ allocation'.binds = MAX_PORT_ATTEMPTS
                   /\ port' = "none"
                   /\ epc' = "returned"
                   /\ ~result'.success
                   /\ result'.exit_code = 1
                   /\ ~materialized'
                   /\ helper' = NoProcess
                   /\ container' = "none"]_vars

PortsExhaustedReturnsFailure ==
    /\ Method = "execute_react_project"
    /\ epc = "returned"
    /\ allocation = [binds |-> MAX_PORT_ATTEMPTS, number |-> 0]
    /\ port = "none"
    /\ ~materialized
    /\ container = "none"
    /\ result.logs = "React project execution failed: Could not find an available port in the safe range (50000-60000) after 100 attempts."

\* C28 (ExecSpec): the stages of execute_react_project occur in the order
\* allocate port, materialize, launch, readiness, capture: the project is
\* materialized only with a port, docker is started only with the project
\* materialized, a browser is opened and routes are captured only after a
\* poll that answered ready, and a call that leaves from launch or readiness
\* has opened no browser and captured no route.
ReactCaptured ==
    \/ browser # "none"
    \/ route_index > 0
    \/ DOMAIN screenshots # {}

StagesInOrder ==
    /\ [](Method = "execute_react_project"
            => /\ materialized => allocation.number # NoAllocation.number
               /\ helper # NoProcess => materialized
               /\ epc \in {"react_poll", "react_capture", "react_page", "react_routes"}
                     => helper.state = "exited" /\ helper.returncode = 0
               /\ (epc \in {"react_capture", "react_page", "react_routes"} \/ ReactCaptured)
                     => /\ IsReady(probe)
                        /\ materialized
                        /\ helper.state = "exited" /\ helper.returncode = 0
                        /\ container # "none")
    /\ [][(Method = "execute_react_project" /\ epc' # epc)
             => CASE epc' = "react_materialize" -> epc = "react_setup"
                  [] epc' = "react_launch"      -> epc = "react_materialize"
                  [] epc' = "react_launch_wait" -> epc = "react_launch"
                  [] epc' = "react_poll"        -> epc = "react_launch_wait"
                  [] epc' = "react_capture"     -> epc = "react_poll" /\ IsReady(probe')
                  [] epc' = "react_page"        -> epc = "react_capture"
                  [] epc' = "react_routes"      -> epc = "react_page"
                  [] OTHER -> TRUE]_vars
    /\ [][(/\ Method = "execute_react_project"
           /\ epc \in {"react_launch", "react_launch_wait", "react_poll"}
           /\ epc' \in {"returned", "raised"})
             => ~ReactCaptured']_vars

ReadinessFailedNothingCaptured ==
    /\ Method = "execute_react_project"
    /\ epc = "returned"
    /\ materialized
    /\ helper.returncode = 0 /\ helper.state = "exited"
    /\ attempt = MaxAttempts
    /\ ~IsReady(probe)
    /\ ~ReactCaptured
    /\ ~result.success

\* C29 (ExecSpec): a route whose wait for React to mount used up its
\* max_wait passes is not returned as a capture: the call fails or the
\* route's entry is an error marker, never the markup of the unmounted page.
IsErrorMarker(value) == Contains(value, "Error capturing route: ")

CaptureTimeoutTerminal ==
    (Method = "execute_react_project" /\ epc = "returned")
        => \A r \in DOMAIN waits :
             TimedOut(waits[r])
                => \/ ~result.success
                   \/ IsErrorMarker(ReturnedScreenshots[r])

\* C30 (CoordSpec): whenever the job of submit_tasks has status completed or
\* failed, its task has status completed or failed, not pending or running.
JobEndedTaskEnded ==
    (path = "task" /\ job_status \in {"completed", "failed"})
        => task_status \in {"completed", "failed"}

\* C31 (CoordSpec): on the task path the status of the task and the status of
\* the job move only pending -> running -> completed or failed; a status that
\* is completed or failed does not change any more.
StatusMoves ==
    {<<"none", "pending">>, <<"pending", "running">>,
     <<"running", "completed">>, <<"running", "failed">>}

StatusOnlyForward ==
    [][(path = "task")
          => /\ task_status' = task_status \/ <<task_status, task_status'>> \in StatusMoves
             /\ job_status' = job_status \/ <<job_status, job_status'>> \in StatusMoves]_vars

\* C32 (ValidatorSpec): a Python source that parses and holds a direct call
\* of eval, exec or compile is rejected by validate_code with a non-empty
\* reason.
CallsDynamicEval(src) ==
    \E n \in Nodes(src) :
        n.type = "Call" /\ n.func.type = "Name" /\ n.func.id \in {"eval", "exec", "compile"}

DynamicEvalRejected ==
    (vpc = "done" /\ vlanguage = "python" /\ ParseOk(vcode) /\ CallsDynamicEval(vcode))
        => (~vverdict.allowed /\ vverdict.reason # "")

\* C33 (ConcurrentSpec): the name a Java call works with is the name of the
\* class that the first trimmed line starting with "public class" or "class"
\* and holding "{" declares, "Main" when there is no such line; the source
\* is written to that name with .java and the run step loads that class.
IdentifierChars == UpperLetters \o LowerLetters \o "0123456789_$"

RECURSIVE Identifier(_)
Identifier(t) ==
    IF t # "" /\ Contains(IdentifierChars, Head(t))
    THEN Head(t) \o Identifier(Tail(t))
    ELSE ""

AfterKeyword(line) ==
    IF StartsWith(line, "public class")
    THEN SubSeq(line, Len("public class") + 1, Len(line))
    ELSE SubSeq(line, Len("class") + 1, Len(line))

RECURSIVE DeclaredName(_)
DeclaredName(lines) ==
    IF lines = <<>> THEN "Main"
    ELSE LET line == Strip(Head(lines))
         IN  IF (StartsWith(line, "public class") \/ StartsWith(line, "class"))
                  /\ Contains(line, "{")
             THEN Identifier(LStrip(AfterKeyword(line)))
             ELSE DeclaredName(Tail(lines))

EntryPointIsDeclaredClass ==
    \A i \in Invocations :
        (rlanguage[i] = "java")
            => LET name == DeclaredName(SplitOn(rcode[i], "\n"))
               IN  /\ ClassName(rcode[i]) = name
                   /\ SourceFile(i) = name \o ".java"
                   /\ ExecutedFile(i) = name \o ".class"

\* C34 (ProjectSpec): once the project is materialized, the App module that
\* main.jsx imports is a file that was written under that name when the
\* caller supplied App.js or App.jsx, and the stylesheet it imports is a file
\* that was written under that name when the caller supplied a .css file.
SuppliesApp ==
    \E i \in 1..Len(supplied) : NormalizedName(supplied[i][1]) \in {"App.js", "App.jsx"}

SuppliesCss ==
    \E i \in 1..Len(supplied) : EndsWith(NormalizedName(supplied[i][1]), ".css")

MainImportsWrittenFiles ==
    (ppc = "done")
        => /\ SuppliesApp => PathJoin(src_dir, main_imports.app) \in wrote
           /\ SuppliesCss => PathJoin(src_dir, main_imports.css) \in wrote

\* C35 (ProjectSpec): every file that is written for a supplied path lies
\* under the working directory of the call.
WritesStayInWorkingDirectory ==
    \A f \in wrote : IsUnder(f, temp_dir)

\* C36 (ExecSpec): the wait of a route ends before its passes are used up
\* only when the application has rendered elements into the root node.
EarlyReadyMeansRendered ==
    (Method = "execute_react_project")
        => \A r \in DOMAIN waits :
             (waits[r].attempts \in 1..(max_wait - 1)) => waits[r].rendered > 0

\* C37 (ExecSpec): the teardown of a project execution removes the working
\* directory only when the container mounted on it is no longer running.
DirectoryRemovedAfterContainerStopped ==
    [][(/\ Method = "execute_react_project"
        /\ "temp_dir" \in files
        /\ "temp_dir" \notin files') => container' # "running"]_vars

\* C38 (NodeSpec): two node executions in flight never ask for the same
\* host port, and the response a call returns is that of its own server.
NodeCallsKeepApart ==
    /\ \A i \in Invocations, j \in Invocations :
         (i # j /\ npc[i] \in {"sleep", "stop"} /\ npc[j] \in {"sleep", "stop"})
             => HostPort(i) # HostPort(j)
    /\ \A i \in Invocations : answered[i] \in {Nobody, i}

EveryRunTaskReported ==
    (path = "run" /\ cpc = "done" /\ ~IsBlankSource(user_code))
        => (appended /\ job_status \in {"completed", "failed"})

====
